---- MODULE Spec2Model ----
(***************************************************************************)
(* statskita: the cross-wave harmonization engine (SurveyHarmonizer) and    *)
(* the labour-force derivations, as a state machine over small datasets.    *)
(*                                                                          *)
(* A dataset is a sequence of columns (name, dtype, values); a cell is a    *)
(* tagged value (integer code, text label, boolean or null).  The rule      *)
(* table is built from the hardcoded fallback table and the YAML override   *)
(* documents of a config directory, exactly as the constructor does.        *)
(***************************************************************************)
EXTENDS Integers, Sequences, FiniteSets, TLC

VARIABLES
    config,     \* the configs/<dataset_type> directory read by the harmonizer
    rules,      \* SurveyHarmonizer._rules, in dict order
    df,         \* the dataset the caller currently holds
    inp,        \* the dataset passed to the last call
    call,       \* the last call and its arguments
    log,        \* mapping_log returned by the last harmonize
    subs,       \* the replace_strict applications of the last harmonize, in order
    prev,       \* the columns label-translated by the call before the last one
    status,     \* "init" | "ok" | "raised"
    calls,      \* number of calls made so far
    ret,        \* what the last call that returns no dataset was given and returned
    dataset_type,   \* SurveyHarmonizer.dataset_type of the instance
    fs          \* the file system: the clock and the modification time of each file

vars == <<config, rules, df, inp, call, log, subs, prev, status, calls, ret, dataset_type, fs>>

-----------------------------------------------------------------------------
(* Cells and columns *)

I(n) == [k |-> "int", i |-> n, s |-> ""]
S(t) == [k |-> "str", i |-> 0, s |-> t]
B(b) == [k |-> "bool", i |-> IF b THEN 1 ELSE 0, s |-> ""]
NULL == [k |-> "null", i |-> 0, s |-> ""]

Column(name, dtype, vals) == [name |-> name, dtype |-> dtype, vals |-> vals]

Columns(d) == [j \in 1..Len(d) |-> d[j].name]

HasColumn(d, name) == \E j \in 1..Len(d) : d[j].name = name

ColIndex(d, name) == CHOOSE j \in 1..Len(d) : d[j].name = name

Col(d, name) == d[ColIndex(d, name)]

Height(d) == IF Len(d) = 0 THEN 0 ELSE Len(d[1].vals)

\* DataFrame.with_columns(expr.alias(name)): replaces the column of that name
\* in place, or appends it
WithColumn(d, c) ==
    IF HasColumn(d, c.name)
    THEN [j \in 1..Len(d) |-> IF d[j].name = c.name THEN c ELSE d[j]]
    ELSE Append(d, c)

\* DataFrame.rename({old: new}); the caller has checked that old is a column
Rename(d, old, new) ==
    [j \in 1..Len(d) |-> IF d[j].name = old THEN [d[j] EXCEPT !.name = new] ELSE d[j]]

\* str.lower() on the column and field names of the model
Lower(s) ==
    CASE s = "B4K4" -> "b4k4"
      [] s = "K4" -> "k4"
      [] s = "B5R1" -> "b5r1"
      [] s = "B1R5" -> "b1r5"
      [] s = "R10A" -> "r10a"
      [] s = "R11" -> "r11"
      [] s = "GENDER" -> "gender"
      [] s = "KAPITA" -> "kapita"
      [] s = "URUT" -> "urut"
      [] s = "R101" -> "r101"
      [] s = "R105" -> "r105"
      [] s = "R301" -> "r301"
      [] s = "WERT" -> "wert"
      [] s = "WEIND" -> "weind"
      [] s = "March" -> "march"
      [] s = "SEPTEMBER" -> "september"
      [] OTHER -> s

\* the decimal text of a small integer (the cast Int64 -> String)
ToStr(n) ==
    CASE n = 1 -> "1" [] n = 2 -> "2" [] n = 3 -> "3" [] n = 4 -> "4"
      [] n = 5 -> "5" [] n = 6 -> "6" [] n = 7 -> "7" [] n = 8 -> "8"
      [] n = 9 -> "9" [] OTHER -> "0"

\* replace_strict casts the keys ("old") to the dtype of the column
CastKey(key, dtype) == IF dtype = "String" THEN S(ToStr(key)) ELSE I(key)

\* one cell of replace_strict(old=keys, new=labels, default=None)
ReplaceCell(c, dtype, dict) ==
    IF \E key \in DOMAIN dict : CastKey(key, dtype) = c
    THEN S(dict[CHOOSE key \in DOMAIN dict : CastKey(key, dtype) = c])
    ELSE NULL

\* a variant that filters: the rows without an entry are dropped
ReplaceStrictDropping(c, dict) ==
    Column(c.name, "String",
           SelectSeq([r \in 1..Len(c.vals) |-> ReplaceCell(c.vals[r], c.dtype, dict)],
                     LAMBDA x : x /= NULL))

\* pl.col(target).replace_strict(old, new, default=None).alias(target)
ReplaceStrict(c, dict) ==
    Column(c.name, "String", [r \in 1..Len(c.vals) |-> ReplaceCell(c.vals[r], c.dtype, dict)])

\* dict.get(key) with None for a missing key; "" and <<>> stand for None
Get(f, key, none) == IF key \in DOMAIN f THEN f[key] ELSE none

Put(f, key, val) == [x \in DOMAIN f \cup {key} |-> IF x = key THEN val ELSE f[x]]

-----------------------------------------------------------------------------
(* The rule table *)

\* VariableMapping(standard_name, wave_names, value_mappings)
VariableMapping(name, wave_names, value_mappings) ==
    [standard_name |-> name, wave_names |-> wave_names, value_mappings |-> value_mappings]

NoDict == <<>>

SameAll(waves, raw) == [w \in waves |-> raw]

\* _get_sakernas_rules: the hardcoded fallback table (no value_mappings)
SakernasRules ==
    << VariableMapping("province_code",
            SameAll({"2021", "2022", "2023", "2024"}, "PROV")
                @@ ("2025" :> "kode_prov") @@ ("2025-02" :> "KODE_PROV"), NoDict),
       VariableMapping("urban_rural",
            SameAll({"2021", "2022", "2023", "2024", "2025"}, "B1R5"), NoDict),
       VariableMapping("age",
            SameAll({"2021", "2022", "2023", "2024"}, "B4K5")
                @@ ("2024-08" :> "K10") @@ ("2025-02" :> "DEM_AGE"), NoDict),
       VariableMapping("gender",
            SameAll({"2021", "2022", "2023", "2024"}, "B4K4")
                @@ ("2024-08" :> "K4") @@ ("2025-02" :> "DEM_SEX"), NoDict),
       VariableMapping("education_level",
            SameAll({"2021", "2022", "2023", "2024"}, "B4K8")
                @@ ("2025-02" :> "DEM_SKLH"), NoDict),
       VariableMapping("work_status",
            SameAll({"2021", "2022", "2023", "2024", "2025"}, "B5R1")
                @@ ("2025-02" :> "JENISKEGIA"), NoDict),
       VariableMapping("hours_worked",
            SameAll({"2021", "2022", "2023", "2024", "2025"}, "B5R28")
                @@ ("2024-08" :> "R19A_JML") @@ ("2025-02" :> "WKT_JML_U"), NoDict),
       VariableMapping("survey_weight",
            SameAll({"2021", "2022", "2023", "2024", "2025"}, "WEIGHT"), NoDict),
       VariableMapping("status_pekerjaan",
            SameAll({"2021", "2022", "2023", "2024", "2025", "2025-02"}, "MJJ_EMPREL"), NoDict),
       VariableMapping("employment_status",
            SameAll({"2021", "2022", "2023", "2024", "2025", "2025-02"}, "STATUS_PEK"), NoDict),
       VariableMapping("wage_cash",
            SameAll({"2021", "2022", "2023", "2024", "2025", "2025-02"}, "MJJ_UPAH_U"), NoDict),
       VariableMapping("wage_goods",
            SameAll({"2021", "2022", "2023", "2024", "2025", "2025-02"}, "MJJ_UPAH_B"), NoDict) >>

\* _get_susenas_rules: a placeholder
SusenasRules == <<>>

RuleNames(rs) == [j \in 1..Len(rs) |-> rs[j].standard_name]

InSeq(x, sq) == \E j \in 1..Len(sq) : sq[j] = x

HasRule(rs, name) == \E j \in 1..Len(rs) : rs[j].standard_name = name

RuleIndex(rs, name) == CHOOSE j \in 1..Len(rs) : rs[j].standard_name = name

\* one override entry of one wave document, as _load_yaml_rules reads it:
\* skipped without canon_name; creates the rule on first sight; sets the wave's
\* raw field name; stores value_labels when the entry has them
LoadOverride(rs, wave, entry) ==
    LET canon == entry.meta.canon_name
        rs1 == IF HasRule(rs, canon) THEN rs
               ELSE Append(rs, VariableMapping(canon, <<>>, <<>>))
        j == RuleIndex(rs1, canon)
        r1 == [rs1[j] EXCEPT !.wave_names = Put(@, wave, entry.field)]
        r2 == IF entry.meta.value_labels /= NoDict
              THEN [r1 EXCEPT !.value_mappings = Put(@, wave, entry.meta.value_labels)]
              ELSE r1
    IN IF canon = "" THEN rs ELSE [rs1 EXCEPT ![j] = r2]

RECURSIVE LoadOverrides(_, _, _, _)
LoadOverrides(rs, wave, overrides, j) ==
    IF j > Len(overrides) THEN rs
    ELSE LoadOverrides(LoadOverride(rs, wave, overrides[j]), wave, overrides, j + 1)

\* _load_yaml_rules: every *.yaml of the directory but base.yaml; a document
\* without a wave is skipped
RECURSIVE LoadDocs(_, _, _)
LoadDocs(rs, docs, j) ==
    IF j > Len(docs) THEN rs
    ELSE LoadDocs(IF docs[j].wave = "" THEN rs
                  ELSE LoadOverrides(rs, docs[j].wave, docs[j].overrides, 1),
                  docs, j + 1)

LoadYamlRules(cfg) == IF cfg.exists THEN LoadDocs(<<>>, cfg.docs, 1) ELSE <<>>

\* {**code_rules, **yaml_rules}: a yaml rule replaces the code rule of the same
\* name at its position, the other yaml rules follow in their own order
MergeRules(code_rules, yaml_rules) ==
    LET kept == [j \in 1..Len(code_rules) |->
                    IF HasRule(yaml_rules, code_rules[j].standard_name)
                    THEN yaml_rules[RuleIndex(yaml_rules, code_rules[j].standard_name)]
                    ELSE code_rules[j]]
        new == SelectSeq(yaml_rules, LAMBDA r : ~HasRule(code_rules, r.standard_name))
    IN kept \o new

\* _load_harmonization_rules for dataset_type "sakernas"
LoadHarmonizationRules(cfg) == MergeRules(SakernasRules, LoadYamlRules(cfg))

\* the hardcoded fallback rules of a dataset type
CodeRules(type) ==
    CASE type = "sakernas" -> SakernasRules
      [] type = "susenas" -> SusenasRules
      [] OTHER -> <<>>

\* _load_harmonization_rules for any dataset_type, cfg being the directory
\* configs/<dataset_type>
LoadRulesFor(type, cfg) == MergeRules(CodeRules(type), LoadYamlRules(cfg))

-----------------------------------------------------------------------------
(* SurveyHarmonizer.harmonize *)

\* the working state of one harmonize call: harmonized_df, mapping_log, the
\* substitutions made so far, and whether an exception has escaped the call
HState(d, lg, sb, ok) == [df |-> d, log |-> lg, subs |-> sb, ok |-> ok]

Raise(h) == [h EXCEPT !.ok = FALSE]

MaxOf(set) == CHOOSE x \in set : \A y \in set : y <= x

MinOf(set) == CHOOSE x \in set : \A y \in set : x <= y

\* when(R10A == 1).then(1).when((R10A == 2) & (R11 == 1)).then(2)
\*   .when((R10A == 2) & (R11 == 2)).then(3).otherwise(None)
DeriveCell(r10a, r11) ==
    IF r10a = I(1) THEN I(1)
    ELSE IF r10a = I(2) /\ r11 = I(1) THEN I(2)
    ELSE IF r10a = I(2) /\ r11 = I(2) THEN I(3)
    ELSE NULL

\* the August 2024 special case: work_status from R10A and R11 (comparing a
\* text column with an integer literal raises)
DeriveWorkStatus(h, d0, wave) ==
    IF wave = "2024-08" /\ HasColumn(d0, "R10A") /\ HasColumn(d0, "R11")
    THEN IF Col(h.df, "R10A").dtype = "String" \/ Col(h.df, "R11").dtype = "String"
         THEN Raise(h)
         ELSE [h EXCEPT
                 !.df = WithColumn(h.df, Column("work_status", "Int32",
                            [r \in 1..Height(h.df) |->
                                DeriveCell(Col(h.df, "R10A").vals[r], Col(h.df, "R11").vals[r])])),
                 !.log = Put(h.log, "R10A+R11", "work_status")]
    ELSE h

\* column_map = {col.lower(): col for col in df.columns}; column_map.get(name.lower()):
\* a later column of the same lowercase name overwrites an earlier one
\* a variant in which the first of the columns that differ only in case wins
ActualColumnFirst(d0, source_var) ==
    LET m == {j \in 1..Len(d0) : Lower(d0[j].name) = Lower(source_var)}
    IN IF m = {} THEN "" ELSE d0[MinOf(m)].name

ActualColumn(d0, source_var) ==
    LET m == {j \in 1..Len(d0) : Lower(d0[j].name) = Lower(source_var)}
    IN IF m = {} THEN "" ELSE d0[MaxOf(m)].name

\* a variant that prefers the shared dictionary to the wave's own
ValueMapSharedFirst(rule, wave) ==
    LET al == Get(rule.value_mappings, "all", NoDict)
    IN IF al /= NoDict THEN al ELSE Get(rule.value_mappings, wave, NoDict)

\* rule.value_mappings.get(source_wave) or rule.value_mappings.get("all")
ValueMap(rule, wave) ==
    LET wv == Get(rule.value_mappings, wave, NoDict)
    IN IF wv /= NoDict THEN wv ELSE Get(rule.value_mappings, "all", NoDict)

\* a variant of the rename guard that does not look at the working dataset
ShouldRenameUnguarded(h, rule, actual, pon) ==
    /\ ~pon
    /\ actual /= rule.standard_name

\* the rename guard of the per-variable loop
ShouldRename(h, rule, actual, pon) ==
    /\ ~pon
    /\ actual /= rule.standard_name
    /\ ~HasColumn(h.df, rule.standard_name)

\* a variant that renames nothing
RenameStepSkipped(h, rule, actual, pon) == h

\* harmonized_df.rename({actual: standard_name}) and its log entry; renaming a
\* column that is no longer in the working dataset raises
RenameStep(h, rule, actual, pon) ==
    IF ShouldRename(h, rule, actual, pon)
    THEN IF HasColumn(h.df, actual)
         THEN [h EXCEPT !.df = Rename(h.df, actual, rule.standard_name),
                        !.log = Put(h.log, actual, rule.standard_name)]
         ELSE Raise(h)
    ELSE h

Substitution(src, var, field, dict, before, after) ==
    [src |-> src, var |-> var, field |-> field, dict |-> dict,
     dtype |-> before.dtype, before |-> before.vals, after |-> after.vals]

\* with_columns(pl.col(target).replace_strict(...).alias(target))
Substitute(h, src, var, target, dict) ==
    LET c == Col(h.df, target)
        c2 == ReplaceStrict(c, dict)
    IN [h EXCEPT !.df = WithColumn(h.df, c2),
                 !.subs = Append(h.subs, Substitution(src, var, target, dict, c, c2))]

\* the value mapping of the per-variable loop
ValueStep(h, rule, actual, wave, pl, pon) ==
    LET value_map == ValueMap(rule, wave)
        target_col == IF pon THEN actual ELSE rule.standard_name
    IN IF ~pl /\ value_map /= NoDict
       THEN IF HasColumn(h.df, target_col)
            THEN Substitute(h, "rule", rule.standard_name, target_col, value_map)
            ELSE Raise(h)
       ELSE h

\* one iteration of "for target_var in target_variables"
RuleStep(h, rs, d0, target_var, wave, pl, pon) ==
    IF ~h.ok \/ ~HasRule(rs, target_var) THEN h
    ELSE LET rule == rs[RuleIndex(rs, target_var)]
             source_var == Get(rule.wave_names, wave, "")
             actual == ActualColumn(d0, source_var)
             h1 == RenameStep(h, rule, actual, pon)
         IN IF source_var = "" \/ actual = "" THEN h
            ELSE IF ~h1.ok THEN h1
            ELSE ValueStep(h1, rule, actual, wave, pl, pon)

RECURSIVE RuleSweep(_, _, _, _, _, _, _, _)
RuleSweep(h, rs, d0, targets, j, wave, pl, pon) ==
    IF j > Len(targets) THEN h
    ELSE RuleSweep(RuleStep(h, rs, d0, targets[j], wave, pl, pon),
                   rs, d0, targets, j + 1, wave, pl, pon)

\* meta.get("value_labels"), else the codelist the entry names, if base.yaml has it
EntryLabels(meta, codelists) ==
    IF meta.value_labels /= NoDict THEN meta.value_labels
    ELSE IF meta.codelist /= "" /\ meta.codelist \in DOMAIN codelists
         THEN codelists[meta.codelist]
         ELSE NoDict

\* the field the entry applies to: the raw field name if it is a column, else
\* canon_name (default: the field name) if that is a column, else none
TargetField(h, entry) ==
    LET canon == IF entry.meta.canon_name = "" THEN entry.field ELSE entry.meta.canon_name
    IN IF HasColumn(h.df, entry.field) THEN entry.field
       ELSE IF HasColumn(h.df, canon) THEN canon
       ELSE ""

LabelsKey(field) == field \o "_labels"

\* one entry of the wave document's overrides section
OverrideStep(h, entry, codelists) ==
    LET value_labels == EntryLabels(entry.meta, codelists)
        target_field == TargetField(h, entry)
    IN IF value_labels /= NoDict /\ target_field /= ""
       THEN [Substitute(h, "override", "", target_field, value_labels)
                EXCEPT !.log = Put(h.log, LabelsKey(target_field), "applied")]
       ELSE h

RECURSIVE OverrideSweep(_, _, _, _)
OverrideSweep(h, overrides, j, codelists) ==
    IF j > Len(overrides) THEN h
    ELSE OverrideSweep(OverrideStep(h, overrides[j], codelists), overrides, j + 1, codelists)

\* one entry of base.yaml's fields section: skipped when the log already has a
\* labels entry for the field
BaseStep(h, entry, codelists) ==
    LET value_labels == EntryLabels(entry.meta, codelists)
        target_field == TargetField(h, entry)
    IN IF value_labels /= NoDict /\ target_field /= ""
          /\ LabelsKey(target_field) \notin DOMAIN h.log
       THEN [Substitute(h, "base", "", target_field, value_labels)
                EXCEPT !.log = Put(h.log, LabelsKey(target_field), "applied_from_base")]
       ELSE h

RECURSIVE BaseSweep(_, _, _, _)
BaseSweep(h, fields, j, codelists) ==
    IF j > Len(fields) THEN h
    ELSE BaseSweep(BaseStep(h, fields[j], codelists), fields, j + 1, codelists)

HasWaveDoc(cfg, wave) == cfg.exists /\ \E j \in 1..Len(cfg.docs) : cfg.docs[j].stem = wave

WaveDoc(cfg, wave) == cfg.docs[CHOOSE j \in 1..Len(cfg.docs) : cfg.docs[j].stem = wave]

\* the second sweep: value labels of <source_wave>.yaml and of base.yaml
ConfigSweep(h, cfg, wave, pl) ==
    IF pl \/ ~h.ok \/ ~HasWaveDoc(cfg, wave) THEN h
    ELSE LET codelists == IF cfg.base.exists THEN cfg.base.codelists ELSE <<>>
             h1 == OverrideSweep(h, WaveDoc(cfg, wave).overrides, 1, codelists)
         IN IF cfg.base.exists THEN BaseSweep(h1, cfg.base.fields, 1, codelists) ELSE h1

\* target_variables: None stands for every rule of the table
TargetList(rs, targets) == IF targets.given THEN targets.names ELSE RuleNames(rs)

\* harmonize(df, source_wave, target_variables, preserve_labels, preserve_original_names)
Harmonize(d0, rs, cfg, wave, targets, pl, pon) ==
    LET h0 == DeriveWorkStatus(HState(d0, <<>>, <<>>, TRUE), d0, wave)
        h1 == RuleSweep(h0, rs, d0, TargetList(rs, targets), 1, wave, pl, pon)
    IN ConfigSweep(h1, cfg, wave, pl)

-----------------------------------------------------------------------------
(* SurveyHarmonizer.create_labor_force_indicators *)

\* boolean expressions of the dataframe library are three-valued
Not3(a) == IF a = NULL THEN NULL ELSE B(a = B(FALSE))

And3(a, b) ==
    IF a = B(FALSE) \/ b = B(FALSE) THEN B(FALSE)
    ELSE IF a = B(TRUE) /\ b = B(TRUE) THEN B(TRUE)
    ELSE NULL

Or3(a, b) ==
    IF a = B(TRUE) \/ b = B(TRUE) THEN B(TRUE)
    ELSE IF a = B(FALSE) /\ b = B(FALSE) THEN B(FALSE)
    ELSE NULL

\* pl.col(c).is_in(codes), pl.col(c) == n, != n, >= n, < n on one cell
IsIn(c, codes) == IF c = NULL THEN NULL ELSE B(c.k = "int" /\ c.i \in codes)

EqInt(c, n) == IF c = NULL THEN NULL ELSE B(c = I(n))

NeInt(c, n) == IF c = NULL THEN NULL ELSE B(c /= I(n))

GeInt(c, n) == IF c = NULL THEN NULL ELSE B(c.i >= n)

LtInt(c, n) == IF c = NULL THEN NULL ELSE B(c.i < n)

\* pl.col(c) == text, pl.col(c).is_in(texts) on one cell
EqStr(c, t) == IF c = NULL THEN NULL ELSE B(c = S(t))

IsInStr(c, texts) == IF c = NULL THEN NULL ELSE B(c.k = "str" /\ c.s \in texts)

\* str.starts_with("Ya") on the texts of the model
StartsWithYa(c) == IF c = NULL THEN NULL ELSE B(c.s \in {"Ya", "Ya, mencari pekerjaan"})

BoolColumn(name, vals) == Column(name, "Boolean", vals)

\* the dtypes the work_status and employment_status branches take as numeric
ListedNumeric == {"Float64", "Float32", "Int64", "Int32", "Decimal"}

\* the dtypes the job-seeking branch takes as numeric
SeekingNumeric == {"Int32", "Int64", "Float32", "Float64"}

TempLabel == "Pernah bekerja tetapi sedang tidak bekerja"

NotWorkingLabels == {"Sekolah", "Mengurus rumah tangga", "Lainnya", "Tidak mampu bekerja"}

\* the working state of one call: result_df, and whether an exception escaped
LState(d, ok) == [df |-> d, ok |-> ok]

LRaise(lf) == [lf EXCEPT !.ok = FALSE]

\* working_age_population = age >= min_working_age
WorkingAgeStep(lf, d0, min_working_age) ==
    IF HasColumn(d0, "age")
    THEN [lf EXCEPT !.df = WithColumn(lf.df,
            BoolColumn("working_age_population", [r \in 1..Height(d0) |->
                GeInt(Col(d0, "age").vals[r], min_working_age)]))]
    ELSE lf

\* employed, not_working, temp_not_working from work_status: by code when the
\* dtype is one of the listed numeric ones, else by label (comparing a column
\* that is not text with a text literal raises)
WorkStatusStep(lf, d0) ==
    LET ws == Col(d0, "work_status")
        n == Height(d0)
    IN IF ws.dtype \in ListedNumeric
       THEN [lf EXCEPT !.df =
               WithColumn(WithColumn(WithColumn(lf.df,
                   BoolColumn("employed", [r \in 1..n |-> IsIn(ws.vals[r], {1})])),
                   BoolColumn("not_working", [r \in 1..n |-> IsIn(ws.vals[r], {3, 4, 5, 6})])),
                   BoolColumn("temp_not_working", [r \in 1..n |-> IsIn(ws.vals[r], {2})]))]
       ELSE IF ws.dtype = "String"
       THEN [lf EXCEPT !.df =
               WithColumn(WithColumn(WithColumn(lf.df,
                   BoolColumn("employed", [r \in 1..n |-> EqStr(ws.vals[r], "Bekerja")])),
                   BoolColumn("not_working", [r \in 1..n |-> IsInStr(ws.vals[r], NotWorkingLabels)])),
                   BoolColumn("temp_not_working", [r \in 1..n |-> EqStr(ws.vals[r], TempLabel)]))]
       ELSE LRaise(lf)

\* canonical name first, then the raw names
JobSeekingCol(d0) ==
    IF HasColumn(d0, "looking_for_work") THEN "looking_for_work"
    ELSE IF HasColumn(d0, "SRH_KERJA") THEN "SRH_KERJA"
    ELSE IF HasColumn(d0, "B5R17") THEN "B5R17"
    ELSE ""

\* seeking_condition and not_seeking_condition of one cell
SeekingCondition(c, dtype) == IF dtype \in SeekingNumeric THEN EqInt(c, 1) ELSE StartsWithYa(c)

NotSeekingCondition(c, dtype) ==
    IF dtype \in SeekingNumeric THEN NeInt(c, 1) ELSE Not3(StartsWithYa(c))

\* unemployed = (~employed | temp_not_working) & seeking
\* a variant that counts every seeker as unemployed
UnemployedCellOfSeekers(employed, temp, seeking) == seeking

UnemployedCell(employed, temp, seeking) == And3(Or3(Not3(employed), temp), seeking)

\* a variant that leaves employed as the work_status branch computed it
EmployedCellUnfolded(employed, temp, not_seeking) == employed

\* when(temp_not_working & not_seeking).then(True).otherwise(employed)
EmployedCell(employed, temp, not_seeking) ==
    IF And3(temp, not_seeking) = B(TRUE) THEN B(TRUE) ELSE employed

\* unemployed, and employed once more, from the job-seeking column (the text
\* functions raise on a column that is neither numeric nor text)
SeekingStep(lf, name) ==
    LET sk == Col(lf.df, name)
        n == Height(lf.df)
        emp == Col(lf.df, "employed").vals
        temp == Col(lf.df, "temp_not_working").vals
        unemployed == BoolColumn("unemployed", [r \in 1..n |->
                         UnemployedCell(emp[r], temp[r], SeekingCondition(sk.vals[r], sk.dtype))])
        employed == BoolColumn("employed", [r \in 1..n |->
                         EmployedCell(emp[r], temp[r], NotSeekingCondition(sk.vals[r], sk.dtype))])
    IN IF sk.dtype \in SeekingNumeric \/ sk.dtype = "String"
       THEN [lf EXCEPT !.df = WithColumn(WithColumn(lf.df, unemployed), employed)]
       ELSE LRaise(lf)

\* a variant that counts everyone not employed as unemployed
NoSeekingStepByEmployment(lf) ==
    [lf EXCEPT !.df = WithColumn(lf.df,
        BoolColumn("unemployed", [r \in 1..Height(lf.df) |-> Not3(Col(lf.df, "employed").vals[r])]))]

\* without a job-seeking column: unemployed = lit(False)
NoSeekingStep(lf) ==
    [lf EXCEPT !.df = WithColumn(lf.df,
        BoolColumn("unemployed", [r \in 1..Height(lf.df) |-> B(FALSE)]))]

\* the work_status block
EmploymentStep(lf, d0) ==
    IF ~lf.ok \/ ~HasColumn(d0, "work_status") THEN lf
    ELSE LET lf1 == WorkStatusStep(lf, d0)
         IN IF ~lf1.ok THEN lf1
            ELSE IF JobSeekingCol(d0) /= "" THEN SeekingStep(lf1, JobSeekingCol(d0))
            ELSE NoSeekingStep(lf1)

\* in_labor_force = employed | unemployed;
\* not_in_labor_force = working_age_population & ~in_labor_force
LaborForceStep(lf) ==
    IF ~lf.ok \/ ~(HasColumn(lf.df, "employed") /\ HasColumn(lf.df, "unemployed")) THEN lf
    ELSE LET n == Height(lf.df)
             emp == Col(lf.df, "employed").vals
             une == Col(lf.df, "unemployed").vals
             d1 == WithColumn(lf.df,
                      BoolColumn("in_labor_force", [r \in 1..n |-> Or3(emp[r], une[r])]))
         IN IF HasColumn(d1, "working_age_population")
            THEN [lf EXCEPT !.df = WithColumn(d1,
                    BoolColumn("not_in_labor_force", [r \in 1..n |-> And3(Col(d1, "working_age_population").vals[r],
                             Not3(Col(d1, "in_labor_force").vals[r]))]))]
            ELSE [lf EXCEPT !.df = d1]

\* underemployed = employed & (hours_worked < 35); the expression names the
\* employed column whether or not the work_status block created it
UnderemployedStep(lf, d0) ==
    IF ~lf.ok \/ ~HasColumn(d0, "hours_worked") THEN lf
    ELSE IF ~HasColumn(lf.df, "employed") THEN LRaise(lf)
    ELSE [lf EXCEPT !.df = WithColumn(lf.df,
            BoolColumn("underemployed", [r \in 1..Height(lf.df) |-> And3(Col(lf.df, "employed").vals[r],
                     LtInt(Col(lf.df, "hours_worked").vals[r], 35))]))]

\* the first non-null value of the column is text
SampleIsText(c) == \E r \in 1..Len(c.vals) : c.vals[r] /= NULL /\ c.vals[r].k = "str"

\* in_school from one column: by label when the sampled value is text, else
\* == 2 (comparing a text column with an integer literal raises)
InSchoolFrom(lf, d0, name) ==
    LET c == Col(d0, name)
        n == Height(lf.df)
    IN IF SampleIsText(c)
       THEN [lf EXCEPT !.df = WithColumn(lf.df,
               BoolColumn("in_school", [r \in 1..n |-> EqStr(c.vals[r], "Masih sekolah")]))]
       ELSE IF c.dtype = "String" THEN LRaise(lf)
       ELSE [lf EXCEPT !.df = WithColumn(lf.df,
               BoolColumn("in_school", [r \in 1..n |-> EqInt(c.vals[r], 2)]))]

InSchoolStep(lf, d0) ==
    IF ~lf.ok THEN lf
    ELSE IF HasColumn(d0, "DEM_SKLH") THEN InSchoolFrom(lf, d0, "DEM_SKLH")
    ELSE IF HasColumn(d0, "school_participation") THEN InSchoolFrom(lf, d0, "school_participation")
    ELSE lf

\* formal = codes 3, 4; informal = codes 1, 2, 5, 6, 7
FormalByCode(lf, name) ==
    LET c == Col(lf.df, name)
        n == Height(lf.df)
    IN [lf EXCEPT !.df =
          WithColumn(WithColumn(lf.df,
              BoolColumn("formal_employment", [r \in 1..n |-> IsIn(c.vals[r], {3, 4})])),
              BoolColumn("informal_employment", [r \in 1..n |-> IsIn(c.vals[r], {1, 2, 5, 6, 7})]))]

FormalFalse(lf) ==
    LET n == Height(lf.df)
    IN [lf EXCEPT !.df =
          WithColumn(WithColumn(lf.df,
              BoolColumn("formal_employment", [r \in 1..n |-> B(FALSE)])),
              BoolColumn("informal_employment", [r \in 1..n |-> B(FALSE)]))]

\* formal_employment and informal_employment from employment_status, else from
\* STATUS_PEK when that one is numeric
FormalStep(lf) ==
    IF ~lf.ok THEN lf
    ELSE IF HasColumn(lf.df, "employment_status")
    THEN IF Col(lf.df, "employment_status").dtype \in ListedNumeric
         THEN FormalByCode(lf, "employment_status")
         ELSE FormalFalse(lf)
    ELSE IF HasColumn(lf.df, "STATUS_PEK")
    THEN IF Col(lf.df, "STATUS_PEK").dtype \in ListedNumeric
         THEN FormalByCode(lf, "STATUS_PEK")
         ELSE lf
    ELSE lf

\* fill_null(0)
FillZero(c) == IF c = NULL THEN I(0) ELSE c

\* total_wage: wage_cash + wage_goods null-filled when both are columns, a
\* copy of wage_cash when it alone is a column, nothing otherwise
TotalWageStep(lf) ==
    IF ~lf.ok \/ ~HasColumn(lf.df, "wage_cash") THEN lf
    ELSE LET cash == Col(lf.df, "wage_cash")
         IN IF HasColumn(lf.df, "wage_goods")
            THEN [lf EXCEPT !.df = WithColumn(lf.df,
                    Column("total_wage", cash.dtype,
                        [r \in 1..Height(lf.df) |->
                            I(FillZero(cash.vals[r]).i
                              + FillZero(Col(lf.df, "wage_goods").vals[r]).i)]))]
            ELSE [lf EXCEPT !.df = WithColumn(lf.df,
                    Column("total_wage", cash.dtype, cash.vals))]

\* create_labor_force_indicators(df, min_working_age)
CreateLaborForceIndicators(d0, min_working_age) ==
    LET lf1 == WorkingAgeStep(LState(d0, TRUE), d0, min_working_age)
        lf2 == EmploymentStep(lf1, d0)
        lf3 == LaborForceStep(lf2)
        lf4 == UnderemployedStep(lf3, d0)
        lf5 == InSchoolStep(lf4, d0)
        lf6 == FormalStep(lf5)
    IN TotalWageStep(lf6)

-----------------------------------------------------------------------------
(* SurveyHarmonizer.validate_harmonization *)

\* the report before the checks
NewReport(original_df, harmonized_df, wave) ==
    [wave |-> wave,
     original_rows |-> Height(original_df), harmonized_rows |-> Height(harmonized_df),
     variables_mapped |-> <<>>, missing_variables |-> <<>>,
     validation_passed |-> TRUE, error |-> ""]

\* a variant that looks the raw name up whatever the letter case
SourcePresentAnyCase(rule, original_df, wave) ==
    LET source_name == Get(rule.wave_names, wave, "")
    IN source_name /= "" /\ ActualColumn(original_df, source_name) /= ""

\* source_name and source_name in original_df.columns
SourcePresent(rule, original_df, wave) ==
    LET source_name == Get(rule.wave_names, wave, "")
    IN source_name /= "" /\ HasColumn(original_df, source_name)

\* one rule of the loop over self._rules
ValidateRule(report, rule, original_df, harmonized_df, wave) ==
    IF SourcePresent(rule, original_df, wave)
    THEN IF HasColumn(harmonized_df, rule.standard_name)
         THEN [report EXCEPT !.variables_mapped =
                  Append(@, <<Get(rule.wave_names, wave, ""), rule.standard_name>>)]
         ELSE [report EXCEPT !.missing_variables = Append(@, rule.standard_name),
                             !.validation_passed = FALSE]
    ELSE report

RECURSIVE ValidateRules(_, _, _, _, _, _)
ValidateRules(report, rs, j, original_df, harmonized_df, wave) ==
    IF j > Len(rs) THEN report
    ELSE ValidateRules(ValidateRule(report, rs[j], original_df, harmonized_df, wave),
                       rs, j + 1, original_df, harmonized_df, wave)

\* the row count check
ValidateRowCount(report) ==
    IF report.original_rows /= report.harmonized_rows
    THEN [report EXCEPT !.validation_passed = FALSE,
                        !.error = "Row count mismatch between original and harmonized data"]
    ELSE report

\* validate_harmonization(original_df, harmonized_df, wave)
ValidateHarmonization(rs, original_df, harmonized_df, wave) ==
    ValidateRowCount(
        ValidateRules(NewReport(original_df, harmonized_df, wave),
                      rs, 1, original_df, harmonized_df, wave))

-----------------------------------------------------------------------------
(* indicators/poverty.py *)

PROVINCE_CODE_TO_NAME ==
    (11 :> "ACEH") @@ (12 :> "SUMATERA UTARA") @@ (13 :> "SUMATERA BARAT") @@ (14 :> "RIAU")
    @@ (15 :> "JAMBI") @@ (16 :> "SUMATERA SELATAN") @@ (17 :> "BENGKULU") @@ (18 :> "LAMPUNG")
    @@ (19 :> "BANGKA BELITUNG") @@ (21 :> "KEPULAUAN RIAU") @@ (31 :> "DKI JAKARTA")
    @@ (32 :> "JAWA BARAT") @@ (33 :> "JAWA TENGAH") @@ (34 :> "DI YOGYAKARTA")
    @@ (35 :> "JAWA TIMUR") @@ (36 :> "BANTEN") @@ (51 :> "BALI")
    @@ (52 :> "NUSA TENGGARA BARAT") @@ (53 :> "NUSA TENGGARA TIMUR")
    @@ (61 :> "KALIMANTAN BARAT") @@ (62 :> "KALIMANTAN TENGAH")
    @@ (63 :> "KALIMANTAN SELATAN") @@ (64 :> "KALIMANTAN TIMUR")
    @@ (65 :> "KALIMANTAN UTARA") @@ (71 :> "SULAWESI UTARA") @@ (72 :> "SULAWESI TENGAH")
    @@ (73 :> "SULAWESI SELATAN") @@ (74 :> "SULAWESI TENGGARA") @@ (75 :> "GORONTALO")
    @@ (76 :> "SULAWESI BARAT") @@ (81 :> "MALUKU") @@ (82 :> "MALUKU UTARA")
    @@ (91 :> "PAPUA BARAT") @@ (92 :> "PAPUA BARAT DAYA") @@ (94 :> "PAPUA")
    @@ (95 :> "PAPUA SELATAN") @@ (96 :> "PAPUA TENGAH") @@ (97 :> "PAPUA PEGUNUNGAN")

\* the hard-coded fallback lines
HardUrban == 601871

HardRural == 556874

\* get_poverty_line of calculate_poverty_headcount
HeadcountPovertyLine(poverty_lines, prov_code, urban_rural) ==
    LET province_name == Get(PROVINCE_CODE_TO_NAME, prov_code, "")
        category == IF urban_rural = 1 THEN "urban" ELSE "rural"
    IN IF province_name /= "" /\ <<province_name, category>> \in DOMAIN poverty_lines
       THEN poverty_lines[<<province_name, category>>]
       ELSE IF <<"INDONESIA", category>> \in DOMAIN poverty_lines
       THEN poverty_lines[<<"INDONESIA", category>>]
       ELSE IF urban_rural = 1 THEN HardUrban ELSE HardRural

\* get_poverty_line without the national tier
InternalPovertyLineNoNational(poverty_lines, prov_code, urban_rural) ==
    LET province_name == Get(PROVINCE_CODE_TO_NAME, prov_code, "")
        category == IF urban_rural = 1 THEN "urban" ELSE "rural"
    IN IF province_name /= "" /\ <<province_name, category>> \in DOMAIN poverty_lines
       THEN poverty_lines[<<province_name, category>>]
       ELSE IF urban_rural = 1 THEN HardUrban ELSE HardRural

\* get_poverty_line of _calculate_poverty_internal
InternalPovertyLine(poverty_lines, prov_code, urban_rural) ==
    LET province_name == Get(PROVINCE_CODE_TO_NAME, prov_code, "")
        category == IF urban_rural = 1 THEN "urban" ELSE "rural"
    IN IF province_name /= "" /\ <<province_name, category>> \in DOMAIN poverty_lines
       THEN poverty_lines[<<province_name, category>>]
       ELSE IF <<"INDONESIA", category>> \in DOMAIN poverty_lines
       THEN poverty_lines[<<"INDONESIA", category>>]
       ELSE IF urban_rural = 1 THEN HardUrban ELSE HardRural

\* a number as a fraction n/d, or NaN
Frac(n, d) == [nan |-> FALSE, n |-> n, d |-> d]

NaN == [nan |-> TRUE, n |-> 0, d |-> 1]

\* what a poverty call gives back: the exception that left it ("" if none),
\* whether it warned, the poverty line of each row it kept, and its estimate
PResult(raised, warned, lines, value) ==
    [raised |-> raised, warned |-> warned, lines |-> lines, value |-> value]

PRaise(kind) == PResult(kind, FALSE, <<>>, NaN)

\* df.filter(pl.col("R301") != 1): the rows kept
ExcludeSinglePerson(d) ==
    LET keep == SelectSeq([r \in 1..Height(d) |-> r],
                          LAMBDA r : NeInt(Col(d, "R301").vals[r], 1) = B(TRUE))
    IN [j \in 1..Len(d) |->
          [d[j] EXCEPT !.vals = [m \in 1..Len(keep) |-> d[j].vals[keep[m]]]]]

\* df.rename({c: c.lower() for c in df.columns})
Lowered(d) == [j \in 1..Len(d) |-> [d[j] EXCEPT !.name = Lower(@)]]

\* Series.sum() of the integers w[r] over the rows in rs
RECURSIVE SumOver(_, _)
SumOver(w, rs) ==
    IF rs = {} THEN 0
    ELSE LET r == CHOOSE x \in rs : TRUE IN w[r] + SumOver(w, rs \ {r})

\* a numeric cell as a number, a null adding nothing to a sum
Num(c) == IF c = NULL THEN 0 ELSE c.i

\* pl.col("kapita") < pl.col("poverty_line") is True
IsPoor(d, lines, r) == Col(d, "kapita").vals[r] /= NULL /\ Col(d, "kapita").vals[r].i < lines[r]

\* calculate_poverty_headcount after the exclusion of single-person households
HeadcountOf(d1, poverty_lines) ==
    LET d == Lowered(d1)
        n == Height(d)
        lines == [r \in 1..n |-> HeadcountPovertyLine(poverty_lines,
                                    Col(d, "r101").vals[r].i, Col(d, "r105").vals[r].i)]
        w == [r \in 1..n |-> Num(Col(d, "r301").vals[r]) * Num(Col(d, "wert").vals[r])]
        total_pop == SumOver(w, 1..n)
        poor_pop == SumOver(w, {r \in 1..n : IsPoor(d, lines, r)})
    IN IF ~HasColumn(d1, "KAPITA") /\ ~HasColumn(d1, "kapita") THEN PRaise("ValueError")
       ELSE IF \A r \in 1..n : Col(d, "kapita").vals[r] = NULL THEN PRaise("ValueError")
       ELSE IF \E c \in {"urut", "kapita", "r105", "r101", "r301", "wert"} : ~HasColumn(d, c)
       THEN PRaise("ValueError")
       ELSE IF total_pop = 0 THEN PResult("", TRUE, lines, NaN)
       ELSE PResult("", FALSE, lines, Frac(poor_pop * 100, total_pop))

\* calculate_poverty_headcount(df_blok43, poverty_lines, exclude_single_person)
CalculatePovertyHeadcount(d0, poverty_lines, exclude_single_person) ==
    IF exclude_single_person
    THEN IF HasColumn(d0, "R301") THEN HeadcountOf(ExcludeSinglePerson(d0), poverty_lines)
         ELSE PRaise("ColumnNotFoundError")
    ELSE HeadcountOf(d0, poverty_lines)

\* ((poverty_line - kapita) / poverty_line) ** alpha of a poor row, as a
\* fraction of denominator GapUnit ** alpha
GapUnit == 4

RECURSIVE Power(_, _)
Power(x, alpha) == IF alpha = 0 THEN 1 ELSE x * Power(x, alpha - 1)

\* twice the gap
GapContributionTwice(line, kapita, alpha) ==
    Power(2 * ((GapUnit * (line - kapita)) \div line), alpha)

GapContribution(line, kapita, alpha) == Power((GapUnit * (line - kapita)) \div line, alpha)

\* _calculate_poverty_internal(df_blok43, poverty_lines, alpha)
CalculatePovertyInternal(d1, poverty_lines, alpha) ==
    LET d == Lowered(d1)
        n == Height(d)
        lines == [r \in 1..n |-> InternalPovertyLine(poverty_lines,
                                    Col(d, "r101").vals[r].i, Col(d, "r105").vals[r].i)]
        w == [r \in 1..n |->
                 IF HasColumn(d, "weind") THEN Num(Col(d, "weind").vals[r])
                 ELSE Num(Col(d, "r301").vals[r]) * Num(Col(d, "wert").vals[r])]
        total == SumOver(w, 1..n)
        poor == {r \in 1..n : IsPoor(d, lines, r)}
        gap == [r \in 1..n |->
                   IF r \in poor
                   THEN w[r] * GapContribution(lines[r], Col(d, "kapita").vals[r].i, alpha)
                   ELSE 0]
    IN IF ~HasColumn(d, "kapita") THEN PRaise("ValueError")
       ELSE IF \E c \in {"urut", "kapita", "r105", "r101", "r301"} : ~HasColumn(d, c)
       THEN PRaise("ValueError")
       ELSE IF ~HasColumn(d, "weind") /\ ~HasColumn(d, "wert") THEN PRaise("ValueError")
       ELSE IF alpha = 0
       THEN PResult("", FALSE, lines,
                    IF total > 0 THEN Frac(SumOver(w, poor), total) ELSE Frac(0, 1))
       ELSE PResult("", FALSE, lines,
                    IF total > 0
                    THEN Frac(SumOver(gap, 1..n) * 100, total * Power(GapUnit, alpha))
                    ELSE Frac(0, 1))

\* calculate_poverty_fgt(df_blok43, poverty_lines, alpha, exclude_single_person)
CalculatePovertyFgt(d0, poverty_lines, alpha, exclude_single_person) ==
    IF exclude_single_person
    THEN IF HasColumn(d0, "R301")
         THEN CalculatePovertyInternal(ExcludeSinglePerson(d0), poverty_lines, alpha)
         ELSE PRaise("ColumnNotFoundError")
    ELSE CalculatePovertyInternal(d0, poverty_lines, alpha)

-----------------------------------------------------------------------------
(* indicators/inequality.py *)

\* the rows in the order they were given
GivenOrder(values) == [i \in 1..Len(values) |-> i]

\* np.argsort(values): the rows by ascending value
SortedIndices(values) ==
    CHOOSE p \in [1..Len(values) -> 1..Len(values)] :
        /\ \A i, j \in 1..Len(values) : i /= j => p[i] /= p[j]
        /\ \A i, j \in 1..Len(values) : i < j => values[p[i]].i <= values[p[j]].i

\* if exclude_single_person and "R301" in df.columns: df = df.filter(R301 != 1)
ExcludedIfAsked(d0, exclude_single_person) ==
    IF exclude_single_person /\ HasColumn(d0, "R301") THEN ExcludeSinglePerson(d0) ELSE d0

\* the value column read: the one asked for, else KAPITA, else the default name
ValueColumn(d, value_col) ==
    IF HasColumn(d, value_col) THEN value_col
    ELSE IF HasColumn(d, "KAPITA") THEN "KAPITA" ELSE "per_capita_expenditure"

\* calculate_gini(df, weight_col, value_col, exclude_single_person): 1 minus
\* twice the trapezoidal area under the Lorenz curve, as an exact fraction;
\* a null in either column, or a total of zero, makes the result NaN
CalculateGini(d0, weight_col, value_col, exclude_single_person) ==
    LET d == ExcludedIfAsked(d0, exclude_single_person)
        wc == IF HasColumn(d, weight_col) THEN weight_col
              ELSE IF HasColumn(d, "WEIND") THEN "WEIND" ELSE "weight"
        vc == ValueColumn(d, value_col)
        n == Height(d)
        values == Col(d, vc).vals
        weights == Col(d, wc).vals
        sorted_indices == SortedIndices(values)
        sorted_weights == [i \in 1..n |-> weights[sorted_indices[i]].i]
        weighted_values == [i \in 1..n |-> values[sorted_indices[i]].i * sorted_weights[i]]
        total_weight == SumOver(sorted_weights, 1..n)
        total_value == SumOver(weighted_values, 1..n)
        trapezoids == [i \in 1..n |->
                          sorted_weights[i] * (SumOver(weighted_values, 1..i)
                                               + SumOver(weighted_values, 1..(i - 1)))]
    IN IF ~HasColumn(d, vc) \/ ~HasColumn(d, wc) THEN PRaise("ColumnNotFoundError")
       ELSE IF n = 0 THEN PRaise("IndexError")
       ELSE IF \E r \in 1..n : values[r] = NULL \/ weights[r] = NULL
       THEN PResult("", FALSE, <<>>, NaN)
       ELSE IF total_weight = 0 \/ total_value = 0 THEN PResult("", TRUE, <<>>, NaN)
       ELSE PResult("", FALSE, <<>>,
                    Frac(total_weight * total_value - SumOver(trapezoids, 1..n),
                         total_weight * total_value))

\* Series.quantile(k / 10) with the default "nearest" interpolation: the
\* non-null values in ascending order, read at the rounded position
Quantile(vals, k) ==
    LET values == SelectSeq(vals, LAMBDA c : c /= NULL)
        n == Len(values)
        idx == ((n - 1) * k * 2 + 10) \div 20
    IN IF n = 0 THEN NULL ELSE values[SortedIndices(values)[idx + 1]]

\* float(p / q) if q > 0 else None; None is the fraction of denominator 0
RatioOrNone(p, q) == IF q.i > 0 THEN Frac(p.i, q.i) ELSE Frac(0, 0)

\* calculate_percentile_ratios(df, weight_col, value_col, exclude_single_person)
CalculatePercentileRatios(d0, weight_col, value_col, exclude_single_person) ==
    LET d == ExcludedIfAsked(d0, exclude_single_person)
        vc == ValueColumn(d, value_col)
        p10 == Quantile(Col(d, vc).vals, 1)
        p20 == Quantile(Col(d, vc).vals, 2)
        p50 == Quantile(Col(d, vc).vals, 5)
        p80 == Quantile(Col(d, vc).vals, 8)
        p90 == Quantile(Col(d, vc).vals, 9)
    IN IF ~HasColumn(d, vc) THEN [raised |-> "ColumnNotFoundError", ratios |-> <<>>]
       ELSE IF p10 = NULL THEN [raised |-> "TypeError", ratios |-> <<>>]
       ELSE [raised |-> "",
             ratios |-> [p90_p10 |-> RatioOrNone(p90, p10),
                         p80_p20 |-> RatioOrNone(p80, p20),
                         p90_p50 |-> RatioOrNone(p90, p50),
                         p50_p10 |-> RatioOrNone(p50, p10),
                         median |-> Frac(p50.i, 1),
                         p10 |-> Frac(p10.i, 1),
                         p90 |-> Frac(p90.i, 1)]]

-----------------------------------------------------------------------------
(* loaders/bps_api.py *)

BASE_URL == "https://webapi.bps.go.id/v1/api"

PERIOD_CODES == [march |-> 61, september |-> 62, annual |-> 63]

\* str(n): the decimal digits of n
RECURSIVE DecimalDigits(_)
DecimalDigits(n) == IF n < 10 THEN <<n>> ELSE DecimalDigits(n \div 10) \o <<n % 10>>

\* int(digits)
RECURSIVE IntOf(_)
IntOf(digits) ==
    IF Len(digits) = 0 THEN 0
    ELSE 10 * IntOf(SubSeq(digits, 1, Len(digits) - 1)) + digits[Len(digits)]

\* pattern in key
Contains(key, pattern) ==
    \E j \in 0..(Len(key) - Len(pattern)) : SubSeq(key, j + 1, j + Len(pattern)) = pattern

\* key.endswith(suffix)
EndsWith(key, suffix) ==
    /\ Len(suffix) <= Len(key)
    /\ SubSeq(key, Len(key) - Len(suffix) + 1, Len(key)) = suffix

\* a key of any period passes
InAnyPeriod(key, period_code) == TRUE

\* key.endswith(str(period_code))
InPeriod(key, period_code) == EndsWith(key, DecimalDigits(period_code))

\* provinces = {p["val"]: p["label"] for p in data.get("vervar", [])}
RECURSIVE ProvinceLabels(_, _)
ProvinceLabels(vervar, j) ==
    IF j = 0 THEN <<>>
    ELSE Put(ProvinceLabels(vervar, j - 1), vervar[j].val, vervar[j].label)

\* one turn of the loop over data.get("datacontent", {}).items()
ParseItem(poverty_lines, item, provinces, period_code) ==
    LET prov_name == Get(provinces, IntOf(SubSeq(item.key, 1, 4)), "")
    IN IF prov_name = "" THEN poverty_lines
       ELSE IF ~InPeriod(item.key, period_code) THEN poverty_lines
       ELSE IF Contains(item.key, <<4, 3, 0>>)
       THEN Put(poverty_lines, <<prov_name, "urban">>, item.value)
       ELSE IF Contains(item.key, <<4, 3, 1>>)
       THEN Put(poverty_lines, <<prov_name, "rural">>, item.value)
       ELSE poverty_lines

RECURSIVE ParseContent(_, _, _, _)
ParseContent(datacontent, j, provinces, period_code) ==
    IF j = 0 THEN <<>>
    ELSE ParseItem(ParseContent(datacontent, j - 1, provinces, period_code),
                   datacontent[j], provinces, period_code)

\* requests.get(url, params={"tur": period_code}, timeout=30): the keyword
\* arguments the call passes
GetRequest(year_code, api_key, period_code) ==
    [url |-> <<BASE_URL, "/list/model/data/lang/ind/domain/0000/var/195/th/", year_code,
               "/key/", api_key>>,
     kwargs |-> [params |-> [tur |-> period_code], timeout |-> 30]]

\* BPSAPIClient(api_key).get_poverty_lines(year, period) against a server
\* that answers with this response
GetPovertyLines(api_key, year, period, response) ==
    IF Lower(period) \notin DOMAIN PERIOD_CODES
    THEN [raised |-> "ValueError", requests |-> <<>>, lines |-> <<>>]
    ELSE LET period_code == PERIOD_CODES[Lower(period)]
             requests == << GetRequest(year - 1900, api_key, period_code) >>
         IN IF response.status /= 200
            THEN [raised |-> "HTTPError", requests |-> requests, lines |-> <<>>]
            ELSE [raised |-> "", requests |-> requests,
                  lines |-> ParseContent(response.datacontent, Len(response.datacontent),
                                         ProvinceLabels(response.vervar, Len(response.vervar)),
                                         period_code)]

-----------------------------------------------------------------------------
(* utils/converters.py *)

\* a path: directory, name (base and part marker) and suffix
Path(dir, base, part, suffix) == [dir |-> dir, base |-> base, part |-> part, suffix |-> suffix]

\* path.with_suffix(".parquet")
WithSuffix(path, suffix) == [path EXCEPT !.suffix = suffix]

\* path.exists()
Exists(files, path) == path \in DOMAIN files

\* a file written now
Written(f, path) == [f EXCEPT !.files = Put(f.files, path, f.now)]

\* the conversion is needed whenever the parquet file is missing
NeedConversionIfMissing(f, source, parquet_path, force_rebuild) ==
    force_rebuild \/ ~Exists(f.files, parquet_path)

\* force_rebuild or not parquet_path.exists()
\*   or parquet_path.stat().st_mtime < source.stat().st_mtime
NeedConversion(f, source, parquet_path, force_rebuild) ==
    \/ force_rebuild
    \/ ~Exists(f.files, parquet_path)
    \/ f.files[parquet_path] < f.files[source]

\* what a converter gives back: the exception that left it ("" if none), the
\* path returned, whether it converted, and the file system it leaves
Converted(raised, path, converted, f) ==
    [raised |-> raised, path |-> path, converted |-> converted, after |-> f]

\* dbf_to_parquet(dbf_path, parquet_path, force_rebuild); parquet_path is
\* dbf_path itself when the argument is None; ogr2ogr succeeds ("ok"), is
\* not installed ("missing") or fails after it began to write ("partial");
\* load_sakernas returns or raises
DbfToParquet(f, dbf_path, parquet_arg, force_rebuild, gdal, loads) ==
    LET parquet_path == IF parquet_arg = dbf_path THEN WithSuffix(dbf_path, ".parquet")
                        ELSE parquet_arg
    IN IF ~Exists(f.files, dbf_path) THEN Converted("FileNotFoundError", dbf_path, FALSE, f)
       ELSE IF ~NeedConversion(f, dbf_path, parquet_path, force_rebuild)
       THEN Converted("", parquet_path, FALSE, f)
       ELSE IF gdal = "ok" THEN Converted("", parquet_path, TRUE, Written(f, parquet_path))
       ELSE LET g == IF gdal = "partial" THEN Written(f, parquet_path) ELSE f
            IN IF loads THEN Converted("", parquet_path, TRUE, Written(g, parquet_path))
               ELSE Converted("LoadError", parquet_path, FALSE, g)

\* dta_to_parquet(dta_path, parquet_path, force_rebuild); pyreadstat.read_dta
\* returns or raises
DtaToParquet(f, dta_path, parquet_arg, force_rebuild, loads) ==
    LET parquet_path == IF parquet_arg = dta_path THEN WithSuffix(dta_path, ".parquet")
                        ELSE parquet_arg
    IN IF ~Exists(f.files, dta_path) THEN Converted("FileNotFoundError", dta_path, FALSE, f)
       ELSE IF ~NeedConversion(f, dta_path, parquet_path, force_rebuild)
       THEN Converted("", parquet_path, FALSE, f)
       ELSE IF loads THEN Converted("", parquet_path, TRUE, Written(f, parquet_path))
       ELSE Converted("LoadError", parquet_path, FALSE, f)

-----------------------------------------------------------------------------
(* scripts/convert_to_parquet.py *)

\* what may stand for a "*" between the prefix and the part marker
Stars == {"", "_", "_blok"}

\* year_month.replace("-", "")
YearMonthClean(year_month) ==
    CASE year_month = "2024-02" -> "202402"
      [] year_month = "2024-08" -> "202408"
      [] OTHER -> year_month

\* dataset[:3]
FirstThree(dataset) ==
    CASE dataset = "sakernas" -> "sak"
      [] dataset = "susenas" -> "sus"
      [] OTHER -> dataset

\* the two prefixes of the patterns of one part marker
PatternPrefixes(dataset, year_month) ==
    { FirstThree(dataset) \o YearMonthClean(year_month),
      dataset \o "_" \o YearMonthClean(year_month) }

\* data_dir.glob(f"{prefix}*{part}.*") matches this path
Globbed(path, data_dir, dataset, year_month) ==
    /\ path.dir = data_dir
    /\ path.part \in {"p1", "p2"}
    /\ \E prefix \in PatternPrefixes(dataset, year_month), star \in Stars :
          path.base = prefix \o star

\* convert_file(input_path, output_path): the converter of the suffix, the
\* input itself for a parquet file, ValueError for any other format
ConvertFile(f, input_path, output_path, gdal, loads) ==
    IF ~Exists(f.files, input_path)
    THEN Converted("FileNotFoundError", input_path, FALSE, f)
    ELSE CASE input_path.suffix = ".dbf" ->
                 DbfToParquet(f, input_path, output_path, FALSE, gdal, loads)
           [] input_path.suffix = ".dta" ->
                 DtaToParquet(f, input_path, output_path, FALSE, loads)
           [] input_path.suffix = ".sav" ->
                 IF ~NeedConversion(f, input_path, output_path, FALSE)
                 THEN Converted("", output_path, FALSE, f)
                 ELSE IF loads THEN Converted("", output_path, TRUE, Written(f, output_path))
                 ELSE Converted("LoadError", output_path, FALSE, f)
           [] input_path.suffix = ".parquet" -> Converted("", input_path, FALSE, f)
           [] OTHER -> Converted("ValueError", input_path, FALSE, f)

\* the loop over sorted(part_files): the temporary parts collected so far,
\* the file system, and the exception that ended the loop ("" if none)
RECURSIVE ConvertParts(_, _, _, _, _, _)
ConvertParts(f, parts, k, output_dir, gdal, loads) ==
    IF k = 0 THEN [raised |-> "", temp_parts |-> <<>>, after |-> f]
    ELSE LET sofar == ConvertParts(f, parts, k - 1, output_dir, gdal, loads)
             part_file == parts[k]
             pq_path == [WithSuffix(part_file, ".parquet") EXCEPT !.dir = output_dir]
             done == ConvertFile(sofar.after, part_file, pq_path, gdal, loads)
         IN IF sofar.raised /= "" THEN sofar
            ELSE IF part_file.suffix = ".parquet"
            THEN [sofar EXCEPT !.temp_parts = Append(@, part_file)]
            ELSE IF done.raised /= "" THEN [sofar EXCEPT !.raised = done.raised,
                                                         !.after = done.after]
            ELSE [sofar EXCEPT !.temp_parts = Append(@, pq_path), !.after = done.after]

\* temp_file.parent == output_dir and "p1" in temp_file.name
\*   or "p2" in temp_file.name
IsTempPart(temp_file, output_dir) ==
    (temp_file.dir = output_dir /\ temp_file.part = "p1") \/ temp_file.part = "p2"

\* temp_file.unlink() for the temporary parts the cleanup selects; removing a
\* file that is already gone raises FileNotFoundError
RECURSIVE Cleanup(_, _, _, _)
Cleanup(f, temp_parts, k, output_dir) ==
    IF k = 0 THEN [raised |-> "", after |-> f]
    ELSE LET sofar == Cleanup(f, temp_parts, k - 1, output_dir)
             temp_file == temp_parts[k]
         IN IF sofar.raised /= "" \/ ~IsTempPart(temp_file, output_dir) THEN sofar
            ELSE IF ~Exists(sofar.after.files, temp_file)
            THEN [sofar EXCEPT !.raised = "FileNotFoundError"]
            ELSE [sofar EXCEPT !.after.files =
                     [p \in DOMAIN sofar.after.files \ {temp_file} |-> sofar.after.files[p]]]

\* what combine_parts gives back: the exception that left it ("" if none),
\* whether it returned a path or None, the path, and the file system
Combined(raised, returned, path, f) ==
    [raised |-> raised, returned |-> returned, path |-> path, after |-> f]

\* combine_parts(data_dir, year_month, output_dir, dataset); sorted_files are
\* the files of the file system in the order of their paths; the parts read
\* have one schema (combines) or not
CombineParts(f, sorted_files, data_dir, year_month, output_dir, dataset, gdal, loads, combines) ==
    LET part_files == SelectSeq(sorted_files,
                                LAMBDA p : Exists(f.files, p)
                                           /\ Globbed(p, data_dir, dataset, year_month))
        output_path == Path(output_dir, dataset \o "_" \o year_month, "", ".parquet")
        conv == ConvertParts(f, part_files, Len(part_files), output_dir, gdal, loads)
        dfs == {conv.temp_parts[k] : k \in 1..Len(conv.temp_parts)}
        written == Written(conv.after, output_path)
        clean == Cleanup(written, conv.temp_parts, Len(conv.temp_parts), output_dir)
    IN IF part_files = <<>> THEN Combined("", "None", output_path, f)
       ELSE IF conv.raised /= "" THEN Combined(conv.raised, "", output_path, conv.after)
       ELSE IF Cardinality(dfs) > 2 /\ ~combines
       THEN Combined("ShapeError", "", output_path, conv.after)
       ELSE IF clean.raised /= "" THEN Combined(clean.raised, "", output_path, clean.after)
       ELSE Combined("", "path", output_path, clean.after)

-----------------------------------------------------------------------------
(* Inputs: config directories and datasets *)

MaxRows == 1

MaxSeed == 15

MaxCalls == 2

Meta(canon, labels, codelist) ==
    [canon_name |-> canon, value_labels |-> labels, codelist |-> codelist]

Entry(field, meta) == [field |-> field, meta |-> meta]

Doc(wave, overrides) == [stem |-> wave, wave |-> wave, overrides |-> overrides]

NoBase == [exists |-> FALSE, fields |-> <<>>, codelists |-> <<>>]

Base(fields, codelists) == [exists |-> TRUE, fields |-> fields, codelists |-> codelists]

ConfigDir(docs, base) == [exists |-> TRUE, docs |-> docs, base |-> base]

NoConfigDir == [exists |-> FALSE, docs |-> <<>>, base |-> NoBase]

SexLabels == (1 :> "Laki-laki") @@ (2 :> "Perempuan")

SexShort == (1 :> "L") @@ (2 :> "P") @@ (3 :> "X")

UrbanLabels == (1 :> "Perkotaan") @@ (2 :> "Perdesaan")

WorkLabels == (1 :> "Bekerja") @@ (2 :> "Pengangguran") @@ (3 :> "Bukan angkatan kerja")

\* 2024.yaml gives gender its value_labels; base.yaml labels B1R5
CfgLabels ==
    ConfigDir(<< Doc("2024", << Entry("B4K4", Meta("gender", SexLabels, "")) >>) >>,
              Base(<< Entry("B1R5", Meta("urban_rural", UrbanLabels, "")) >>, <<>>))

\* 2024.yaml and base.yaml both label gender through the shared codelist
CfgCodelist ==
    ConfigDir(<< Doc("2024", << Entry("B4K4", Meta("gender", NoDict, "sex")) >>) >>,
              Base(<< Entry("B4K4", Meta("gender", NoDict, "sex")) >>, "sex" :> SexLabels))

\* a document of wave "all" carries the shared dictionary; 2024.yaml has its
\* own, 2024-08.yaml has none
CfgAll ==
    ConfigDir(<< Doc("all", << Entry("B4K4", Meta("gender", SexShort, "")) >>),
                 Doc("2024", << Entry("B4K4", Meta("gender", SexLabels, "")) >>),
                 Doc("2024-08", << Entry("K4", Meta("gender", NoDict, "")) >>) >>,
              NoBase)

\* 2024.yaml maps B4K4 to a second canonical name beside the hardcoded gender
CfgTwoNames ==
    ConfigDir(<< Doc("2024", << Entry("B4K4", Meta("sex", NoDict, "")) >>) >>, NoBase)

\* 2024-08.yaml maps R10A to work_status, with labels
CfgWork ==
    ConfigDir(<< Doc("2024-08", << Entry("R10A", Meta("work_status", WorkLabels, "")) >>) >>,
              NoBase)

Configs == {NoConfigDir, CfgLabels, CfgCodelist, CfgAll, CfgTwoNames, CfgWork}

ColumnLists ==
    { <<"B4K4", "B1R5">>, <<"B4K4", "b4k4">>, <<"b4k4", "B4K4">>, <<"gender", "B4K4">>,
      <<"b4k4", "B1R5">>,
      <<"R10A", "R11">>, <<"K4", "R10A", "R11">>, <<"work_status", "R10A", "R11">> }

CodeValues == << I(1), I(2), I(3), NULL >>

\* the cell of column j in row pattern i: patterns 0..15 run through every
\* pair of values of the first two columns
PatternCell(i, j) == CodeValues[((i + (j - 1) * (1 + (i \div 4))) % 4) + 1]

\* a dataset of coded (Int64) columns: n rows, patterns seed, seed+1, ...
Dataset(names, seed, n) ==
    [j \in 1..Len(names) |->
        Column(names[j], "Int64", [r \in 1..n |-> PatternCell(seed + r - 1, j)])]

Datasets ==
    { Dataset(names, seed, n) : names \in ColumnLists, seed \in 0..MaxSeed, n \in 0..MaxRows }

Waves == {"2024", "2024-08"}

AllTargets == [given |-> FALSE, names |-> <<>>]

SomeTargets == [given |-> TRUE, names |-> <<"no_such_variable", "gender", "work_status">>]

TargetChoices == {AllTargets, SomeTargets}

\* the default of min_working_age
DefaultWorkingAge == 15

NoCall ==
    [op |-> "none", wave |-> "", targets |-> AllTargets,
     preserve_labels |-> FALSE, preserve_original_names |-> FALSE,
     min_working_age |-> DefaultWorkingAge]

HarmonizeArgs(wave, targets, pl, pon) ==
    [op |-> "harmonize", wave |-> wave, targets |-> targets,
     preserve_labels |-> pl, preserve_original_names |-> pon,
     min_working_age |-> DefaultWorkingAge]

LaborArgs(min_working_age) ==
    [op |-> "labor", wave |-> "", targets |-> AllTargets,
     preserve_labels |-> FALSE, preserve_original_names |-> FALSE,
     min_working_age |-> min_working_age]

NoReturn == [fn |-> "none"]

\* no files, at time 0
NoFiles == [now |-> 0, files |-> <<>>]

\* a dataset without its last row
Truncated(d) ==
    [j \in 1..Len(d) |-> [d[j] EXCEPT !.vals = SubSeq(@, 1, Len(@) - 1)]]

\* harmonized datasets for create_labor_force_indicators: the columns of a
\* shape, each with its dtype and the values its cells run through
MaxLFSeed == 62

Field(name, dtype, values) == [name |-> name, dtype |-> dtype, values |-> values]

WsCodes == << I(1), I(2), I(3), I(4), I(5), I(6), NULL >>

WsTexts ==
    << S("Bekerja"), S(TempLabel), S("Sekolah"), S("Mengurus rumah tangga"),
       S("Lainnya"), S("Tidak mampu bekerja"), NULL >>

SeekCodes == << I(1), I(2), NULL >>

SeekTexts == << S("Ya"), S("Tidak"), NULL >>

Ages == << I(12), I(20), NULL >>

Hours == << I(20), I(40), NULL >>

Wages == << I(100), NULL, I(5) >>

StatusCodes == << I(1), I(2), I(3), I(4), I(5), I(6), I(7), NULL >>

StatusTexts == << S("Buruh/karyawan/pegawai"), S("Berusaha sendiri"), NULL >>

LFShapes ==
    { << Field("work_status", "Int64", WsCodes) >>,
      << Field("work_status", "Int32", WsCodes), Field("age", "Int64", Ages) >>,
      << Field("work_status", "Int64", WsCodes), Field("looking_for_work", "Int64", SeekCodes),
         Field("age", "Int64", Ages) >>,
      << Field("work_status", "Float64", WsCodes), Field("SRH_KERJA", "String", SeekTexts),
         Field("age", "Int64", Ages) >>,
      << Field("work_status", "String", WsTexts), Field("B5R17", "Float64", SeekCodes),
         Field("age", "Int64", Ages) >>,
      << Field("work_status", "String", WsTexts), Field("looking_for_work", "String", SeekTexts) >>,
      << Field("work_status", "String", WsTexts), Field("age", "Int64", Ages) >>,
      << Field("work_status", "Int64", WsCodes), Field("B5R17", "Int64", SeekCodes),
         Field("SRH_KERJA", "Int64", SeekCodes) >>,
      << Field("work_status", "Int64", WsCodes), Field("hours_worked", "Int64", Hours),
         Field("age", "Int64", Ages) >>,
      << Field("work_status", "Int8", WsCodes) >>,
      << Field("age", "Int64", Ages) >>,
      << Field("hours_worked", "Int64", Hours) >>,
      << Field("wage_cash", "Int64", Wages) >>,
      << Field("wage_goods", "Int64", Wages) >>,
      << Field("wage_cash", "Int64", Wages), Field("wage_goods", "Int64", Wages) >>,
      << Field("employment_status", "Int64", StatusCodes) >>,
      << Field("employment_status", "String", StatusTexts) >>,
      << Field("STATUS_PEK", "Float64", StatusCodes) >>,
      << Field("STATUS_PEK", "String", StatusTexts) >>,
      << Field("employment_status", "Int64", StatusCodes),
         Field("STATUS_PEK", "Int64", << I(3), I(1) >>) >>,
      << Field("work_status", "Int64", WsCodes),
         Field("employment_status", "Int64", << I(1), I(3), NULL >>),
         Field("wage_cash", "Int64", << I(100), NULL >>),
         Field("wage_goods", "Int64", << I(5), NULL >>),
         Field("DEM_SKLH", "Int64", << I(2), I(1), NULL >>) >> }

\* the patterns of a shape run through every combination of the values of its
\* columns, the first column fastest
RECURSIVE Stride(_, _)
Stride(shape, j) == IF j = 1 THEN 1 ELSE Stride(shape, j - 1) * Len(shape[j - 1].values)

ShapeCell(shape, p, j) ==
    shape[j].values[((p \div Stride(shape, j)) % Len(shape[j].values)) + 1]

LFDataset(shape, seed, n) ==
    [j \in 1..Len(shape) |->
        Column(shape[j].name, shape[j].dtype,
               [r \in 1..n |-> ShapeCell(shape, seed + r - 1, j)])]

LFDatasets ==
    { LFDataset(shape, seed, n) : shape \in LFShapes, seed \in 0..MaxLFSeed, n \in 0..MaxRows }

MinWorkingAges == {10, DefaultWorkingAge}

\* SUSENAS blok43 datasets for the poverty indicators
MaxPovSeed == 95

MaxPovRows == 2

PovField(name) ==
    CASE Lower(name) = "r301" -> Field(name, "Int64", << I(2), I(1) >>)
      [] Lower(name) = "kapita" -> Field(name, "Int64", << I(0), I(3), I(1), NULL >>)
      [] Lower(name) = "wert" -> Field(name, "Int64", << I(1), I(0) >>)
      [] Lower(name) = "weind" -> Field(name, "Int64", << I(1), I(0), I(2) >>)
      [] Lower(name) = "r101" -> Field(name, "Int64", << I(11), I(31), I(99) >>)
      [] Lower(name) = "r105" -> Field(name, "Int64", << I(1), I(2) >>)
      [] OTHER -> Field(name, "Int64", << I(1) >>)

PovShape(names) == [j \in 1..Len(names) |-> PovField(names[j])]

PovColumnLists ==
    { << "R301", "KAPITA", "WERT", "R101", "R105", "URUT" >>,
      << "r301", "kapita", "wert", "r101", "r105", "urut" >>,
      << "R301", "WEIND", "KAPITA", "WERT", "R101", "R105", "URUT" >>,
      << "r301", "weind", "kapita", "r101", "r105", "urut" >>,
      << "R301", "WERT", "R101", "R105", "URUT" >>,
      << "r301", "wert", "r101", "r105", "urut" >>,
      << "R301", "KAPITA", "R101", "R105", "URUT" >>,
      << "r301", "kapita", "r101", "r105", "urut" >> }

PovDatasets ==
    { LFDataset(PovShape(names), seed, n) :
        names \in PovColumnLists, seed \in 0..MaxPovSeed, n \in 0..MaxPovRows }

\* poverty line tables: (province name, category) -> line
TableFull ==
    (<<"ACEH", "urban">> :> 2) @@ (<<"ACEH", "rural">> :> 4)
    @@ (<<"INDONESIA", "urban">> :> 4) @@ (<<"INDONESIA", "rural">> :> 2)

TableProvinceOnly == (<<"ACEH", "urban">> :> 2) @@ (<<"ACEH", "rural">> :> 4)

TableNationalRural == (<<"INDONESIA", "rural">> :> 4)

TableEmpty == [k \in {} |-> 0]

PovertyTables == {TableFull, TableProvinceOnly, TableNationalRural, TableEmpty}

Alphas == {0, 1, 2}

\* the gap of every poor row is a whole number of GapUnit-ths of its line
Representable(d0, poverty_lines) ==
    LET res == CalculatePovertyInternal(d0, poverty_lines, 1)
        d == Lowered(d0)
    IN res.raised = "" =>
          \A r \in 1..Height(d) :
              IsPoor(d, res.lines, r) =>
                  (GapUnit * (res.lines[r] - Col(d, "kapita").vals[r].i)) % res.lines[r] = 0

-----------------------------------------------------------------------------
(* The state machine *)

\* SurveyHarmonizer("sakernas") over a config directory, and a loaded dataset
Init ==
    /\ config \in Configs
    /\ rules = LoadHarmonizationRules(config)
    /\ df \in Datasets
    /\ inp = <<>>
    /\ call = NoCall
    /\ log = <<>>
    /\ subs = <<>>
    /\ prev = {}
    /\ status = "init"
    /\ calls = 0
    /\ ret = NoReturn
    /\ dataset_type = "sakernas"
    /\ fs = NoFiles

Labelled(sb) == {sb[j].field : j \in 1..Len(sb)}

\* df, log = harmonizer.harmonize(df, ...): on an exception the caller keeps
\* the dataset it had
HarmonizeCall(a) ==
    LET h == Harmonize(df, rules, config, a.wave, a.targets,
                       a.preserve_labels, a.preserve_original_names)
    IN /\ calls < MaxCalls
       /\ inp' = df
       /\ call' = a
       /\ df' = IF h.ok THEN h.df ELSE df
       /\ log' = IF h.ok THEN h.log ELSE <<>>
       /\ subs' = h.subs
       /\ prev' = Labelled(subs)
       /\ status' = IF h.ok THEN "ok" ELSE "raised"
       /\ calls' = calls + 1
       /\ UNCHANGED <<dataset_type, fs, config, rules, ret>>

HarmonizeFirst ==
    /\ calls = 0
    /\ \E wave \in Waves, targets \in TargetChoices, pl \in BOOLEAN, pon \in BOOLEAN :
          HarmonizeCall(HarmonizeArgs(wave, targets, pl, pon))

\* the harmonized dataset is harmonized again, for the same wave
HarmonizeAgain ==
    /\ calls > 0
    /\ status = "ok"
    /\ \E pon \in BOOLEAN :
          HarmonizeCall(HarmonizeArgs(call.wave, call.targets, call.preserve_labels, pon))

Next == HarmonizeFirst \/ HarmonizeAgain

Spec == Init /\ [][Next]_vars

\* report = harmonizer.validate_harmonization(original, harmonized, wave) on the
\* input and the result of the harmonize call, or on a result that lost a row
ValidateCall ==
    /\ call.op = "harmonize"
    /\ status = "ok"
    /\ ret = NoReturn
    /\ \E harmonized \in {df, Truncated(df)} :
          ret' = [fn |-> "validate", original |-> inp, harmonized |-> harmonized,
                  report |-> ValidateHarmonization(rules, inp, harmonized, call.wave)]
    /\ UNCHANGED <<dataset_type, fs, config, rules, df, inp, call, log, subs, prev, status, calls>>

NextValidate == HarmonizeFirst \/ ValidateCall

SpecValidate == Init /\ [][NextValidate]_vars

\* a harmonized dataset, ready for create_labor_force_indicators
InitLF ==
    /\ config = NoConfigDir
    /\ rules = LoadHarmonizationRules(config)
    /\ df \in LFDatasets
    /\ inp = <<>>
    /\ call = NoCall
    /\ log = <<>>
    /\ subs = <<>>
    /\ prev = {}
    /\ status = "init"
    /\ calls = 0
    /\ ret = NoReturn
    /\ dataset_type = "sakernas"
    /\ fs = NoFiles

\* df = harmonizer.create_labor_force_indicators(df, min_working_age): on an
\* exception the caller keeps the dataset it had
LaborCall ==
    /\ calls < MaxCalls
    /\ status /= "raised"
    /\ \E min_working_age \in MinWorkingAges :
          LET lf == CreateLaborForceIndicators(df, min_working_age)
          IN /\ inp' = df
             /\ call' = LaborArgs(min_working_age)
             /\ df' = IF lf.ok THEN lf.df ELSE df
             /\ status' = IF lf.ok THEN "ok" ELSE "raised"
             /\ calls' = calls + 1
    /\ UNCHANGED <<dataset_type, fs, config, rules, log, subs, prev, ret>>

NextLF == LaborCall

SpecLF == InitLF /\ [][NextLF]_vars

-----------------------------------------------------------------------------
(* A SurveyHarmonizer instance whose dataset_type attribute is assigned *)

DatasetTypes == {"sakernas", "susenas", "other"}

\* the directories under configs/
ConfigTree == [sakernas |-> CfgLabels, susenas |-> CfgTwoNames, other |-> NoConfigDir]

\* harmonizer = SurveyHarmonizer(dataset_type)
InitInstance ==
    /\ dataset_type \in DatasetTypes
    /\ config = ConfigTree[dataset_type]
    /\ rules = LoadRulesFor(dataset_type, config)
    /\ df \in Datasets
    /\ inp = <<>>
    /\ call = NoCall
    /\ log = <<>>
    /\ subs = <<>>
    /\ prev = {}
    /\ status = "init"
    /\ calls = 0
    /\ ret = NoReturn
    /\ fs = NoFiles

\* harmonizer.dataset_type = type: the attribute is plain, nothing else runs;
\* harmonize reads configs/<dataset_type> from now on
SetDatasetType ==
    /\ \E type \in DatasetTypes \ {dataset_type} :
          /\ dataset_type' = type
          /\ config' = ConfigTree[type]
    /\ UNCHANGED <<fs, rules, df, inp, call, log, subs, prev, status, calls, ret>>

NextInstance == SetDatasetType \/ HarmonizeFirst

SpecInstance == InitInstance /\ [][NextInstance]_vars

-----------------------------------------------------------------------------
(* The poverty indicators: one call on a blok43 dataset *)

InitPoverty ==
    /\ config = NoConfigDir
    /\ rules = LoadHarmonizationRules(config)
    /\ df \in PovDatasets
    /\ inp = <<>>
    /\ call = NoCall
    /\ log = <<>>
    /\ subs = <<>>
    /\ prev = {}
    /\ status = "init"
    /\ calls = 0
    /\ ret = NoReturn
    /\ dataset_type = "sakernas"
    /\ fs = NoFiles

PovertyReturn(fn, poverty_lines, alpha, exclude_single_person, result) ==
    [fn |-> fn, data |-> df, poverty_lines |-> poverty_lines, alpha |-> alpha,
     exclude_single_person |-> exclude_single_person, result |-> result]

\* calculate_poverty_headcount(df, poverty_lines, exclude_single_person)
HeadcountCall ==
    /\ status = "init"
    /\ \E poverty_lines \in PovertyTables, exclude_single_person \in BOOLEAN :
          LET result == CalculatePovertyHeadcount(df, poverty_lines, exclude_single_person)
          IN /\ Representable(df, poverty_lines)
             /\ ret' = PovertyReturn("headcount", poverty_lines, 0, exclude_single_person,
                                     result)
             /\ status' = IF result.raised = "" THEN "ok" ELSE "raised"
    /\ calls' = calls + 1
    /\ UNCHANGED <<dataset_type, fs, config, rules, df, inp, call, log, subs, prev>>

\* calculate_poverty_fgt(df, poverty_lines, alpha, exclude_single_person)
FgtCall ==
    /\ status = "init"
    /\ \E poverty_lines \in PovertyTables, alpha \in Alphas,
          exclude_single_person \in BOOLEAN :
          LET result == CalculatePovertyFgt(df, poverty_lines, alpha, exclude_single_person)
          IN /\ Representable(df, poverty_lines)
             /\ ret' = PovertyReturn("fgt", poverty_lines, alpha, exclude_single_person,
                                     result)
             /\ status' = IF result.raised = "" THEN "ok" ELSE "raised"
    /\ calls' = calls + 1
    /\ UNCHANGED <<dataset_type, fs, config, rules, df, inp, call, log, subs, prev>>

NextPoverty == HeadcountCall \/ FgtCall

SpecPoverty == InitPoverty /\ [][NextPoverty]_vars

-----------------------------------------------------------------------------
(* The inequality indicators: one call on a blok43 dataset *)

WeightCols == {"survey_weight", "WERT", "WEIND"}

ValueCols == {"per_capita_expenditure", "KAPITA"}

InequalityReturn(fn, weight_col, value_col, exclude_single_person, result) ==
    [fn |-> fn, data |-> df, weight_col |-> weight_col, value_col |-> value_col,
     exclude_single_person |-> exclude_single_person, result |-> result]

\* calculate_gini(df, weight_col, value_col, exclude_single_person)
GiniCall ==
    /\ status = "init"
    /\ \E weight_col \in WeightCols, value_col \in ValueCols,
          exclude_single_person \in BOOLEAN :
          LET result == CalculateGini(df, weight_col, value_col, exclude_single_person)
          IN /\ ret' = InequalityReturn("gini", weight_col, value_col,
                                        exclude_single_person, result)
             /\ status' = IF result.raised = "" THEN "ok" ELSE "raised"
    /\ calls' = calls + 1
    /\ UNCHANGED <<dataset_type, fs, config, rules, df, inp, call, log, subs, prev>>

\* calculate_percentile_ratios(df, weight_col, value_col, exclude_single_person)
RatiosCall ==
    /\ status = "init"
    /\ \E weight_col \in WeightCols, value_col \in ValueCols,
          exclude_single_person \in BOOLEAN :
          LET result == CalculatePercentileRatios(df, weight_col, value_col,
                                                  exclude_single_person)
          IN /\ ret' = InequalityReturn("ratios", weight_col, value_col,
                                        exclude_single_person, result)
             /\ status' = IF result.raised = "" THEN "ok" ELSE "raised"
    /\ calls' = calls + 1
    /\ UNCHANGED <<dataset_type, fs, config, rules, df, inp, call, log, subs, prev>>

NextInequality == GiniCall \/ RatiosCall

SpecInequality == InitPoverty /\ [][NextInequality]_vars

-----------------------------------------------------------------------------
(* The BPS API client: one call against a server *)

MaxKeys == 3

\* the digits of a datacontent key: province, variable 195, area, year, period
KeyOf(prov, area, period_code) ==
    DecimalDigits(prov) \o <<1, 9, 5>> \o DecimalDigits(area) \o <<1, 2, 4>>
    \o DecimalDigits(period_code)

ProvinceVals == <<1100, 3100, 9999>>

\* the i-th key a server may hold, with a value of its own
PoolItem(i) ==
    [key |-> KeyOf(ProvinceVals[((i \div 6) % 3) + 1], 430 + (i % 3), 61 + ((i \div 3) % 2)),
     value |-> 1000 + (i % 18)]

Vervars ==
    { <<>>,
      << [val |-> 1100, label |-> "ACEH"] >>,
      << [val |-> 1100, label |-> "ACEH"], [val |-> 9999, label |-> "INDONESIA"] >> }

Responses ==
    { [status |-> 200, vervar |-> vervar,
       datacontent |-> [j \in 1..n |-> PoolItem(seed + j - 1)]] :
        vervar \in Vervars, seed \in 0..17, n \in 0..MaxKeys }
    \cup { [status |-> 500, vervar |-> <<>>, datacontent |-> <<>>] }

Years == {2024, 2025}

Periods == {"march", "March", "SEPTEMBER", "annual", "quarterly"}

ApiKeys == {"dummy"}

InitBPS ==
    /\ config = NoConfigDir
    /\ rules = LoadHarmonizationRules(config)
    /\ df = <<>>
    /\ inp = <<>>
    /\ call = NoCall
    /\ log = <<>>
    /\ subs = <<>>
    /\ prev = {}
    /\ status = "init"
    /\ calls = 0
    /\ ret = NoReturn
    /\ dataset_type = "sakernas"
    /\ fs = NoFiles

\* lines = BPSAPIClient(api_key).get_poverty_lines(year, period)
GetPovertyLinesCall ==
    /\ status = "init"
    /\ \E api_key \in ApiKeys, year \in Years, period \in Periods, response \in Responses :
          LET result == GetPovertyLines(api_key, year, period, response)
          IN /\ ret' = [fn |-> "get_poverty_lines", api_key |-> api_key, year |-> year,
                        period |-> period, response |-> response, result |-> result]
             /\ status' = IF result.raised = "" THEN "ok" ELSE "raised"
    /\ calls' = calls + 1
    /\ UNCHANGED <<dataset_type, fs, config, rules, df, inp, call, log, subs, prev>>

NextBPS == GetPovertyLinesCall

SpecBPS == InitBPS /\ [][NextBPS]_vars

-----------------------------------------------------------------------------
(* The converters: calls interleaved with changes of the source files *)

MaxClock == 2

DbfFile == Path("data", "sak202502", "", ".dbf")

DtaFile == Path("data", "sakernas1994", "", ".dta")

OutFile == Path("out", "sak", "", ".parquet")

\* time passes
Tick ==
    /\ fs.now < MaxClock
    /\ fs' = [fs EXCEPT !.now = @ + 1]
    /\ ret' = NoReturn
    /\ UNCHANGED <<dataset_type, config, rules, df, inp, call, log, subs, prev, status, calls>>

\* a source file is created or rewritten
ModifySource ==
    /\ \E source \in {DbfFile, DtaFile} : fs' = Written(fs, source)
    /\ ret' = NoReturn
    /\ UNCHANGED <<dataset_type, config, rules, df, inp, call, log, subs, prev, status, calls>>

\* a source file is removed
DeleteSource ==
    /\ \E source \in {DbfFile, DtaFile} :
          /\ Exists(fs.files, source)
          /\ fs' = [fs EXCEPT !.files = [p \in DOMAIN fs.files \ {source} |-> fs.files[p]]]
    /\ ret' = NoReturn
    /\ UNCHANGED <<dataset_type, config, rules, df, inp, call, log, subs, prev, status, calls>>

ConverterReturn(fn, source, parquet_path, force_rebuild, result) ==
    [fn |-> fn, source |-> source, parquet_path |-> parquet_path,
     force_rebuild |-> force_rebuild, before |-> fs, result |-> result]

\* dbf_to_parquet(dbf_path, parquet_path, force_rebuild)
DbfCall ==
    /\ \E parquet_arg \in {DbfFile, OutFile}, force_rebuild \in BOOLEAN,
          gdal \in {"ok", "missing", "partial"}, loads \in BOOLEAN :
          LET result == DbfToParquet(fs, DbfFile, parquet_arg, force_rebuild, gdal, loads)
          IN /\ fs' = result.after
             /\ ret' = ConverterReturn("dbf_to_parquet", DbfFile,
                                       IF parquet_arg = DbfFile
                                       THEN WithSuffix(DbfFile, ".parquet") ELSE parquet_arg,
                                       force_rebuild, result)
    /\ UNCHANGED <<dataset_type, config, rules, df, inp, call, log, subs, prev, status, calls>>

\* dta_to_parquet(dta_path, parquet_path, force_rebuild)
DtaCall ==
    /\ \E force_rebuild \in BOOLEAN, loads \in BOOLEAN :
          LET result == DtaToParquet(fs, DtaFile, DtaFile, force_rebuild, loads)
          IN /\ fs' = result.after
             /\ ret' = ConverterReturn("dta_to_parquet", DtaFile,
                                       WithSuffix(DtaFile, ".parquet"), force_rebuild, result)
    /\ UNCHANGED <<dataset_type, config, rules, df, inp, call, log, subs, prev, status, calls>>

NextConvert == Tick \/ ModifySource \/ DeleteSource \/ DbfCall \/ DtaCall

SpecConvert == InitBPS /\ [][NextConvert]_vars

-----------------------------------------------------------------------------
(* combine_parts: one call on a data directory in which files appeared *)

\* the files of the model, in the order of their paths
PartFiles ==
    << Path("data", "sak202402_", "p1", ".dbf"),
       Path("data", "sak202402_", "p1", ".parquet"),
       Path("data", "sak202402_", "p2", ".parquet"),
       Path("data", "sak202408", "p1", ".csv"),
       Path("data", "sakernas_202402_blok", "p2", ".sav"),
       Path("out", "sak202402_", "p1", ".parquet") >>

\* a file of the model appears
CreateFile ==
    /\ status = "init"
    /\ \E k \in 1..Len(PartFiles) :
          /\ ~Exists(fs.files, PartFiles[k])
          /\ fs' = Written(fs, PartFiles[k])
    /\ ret' = NoReturn
    /\ UNCHANGED <<dataset_type, config, rules, df, inp, call, log, subs, prev, status, calls>>

\* combine_parts(data_dir, year_month, output_dir, dataset)
CombineCall ==
    /\ status = "init"
    /\ \E year_month \in {"2024-02", "2024-08"}, output_dir \in {"out", "data"},
          gdal \in {"ok", "missing"}, loads \in BOOLEAN, combines \in BOOLEAN :
          LET result == CombineParts(fs, PartFiles, "data", year_month, output_dir,
                                     "sakernas", gdal, loads, combines)
          IN /\ fs' = result.after
             /\ ret' = [fn |-> "combine_parts", data_dir |-> "data",
                        output_dir |-> output_dir, year_month |-> year_month,
                        before |-> fs, result |-> result]
             /\ status' = IF result.raised = "" THEN "ok" ELSE "raised"
    /\ UNCHANGED <<dataset_type, config, rules, df, inp, call, log, subs, prev, calls>>

NextCombine == CreateFile \/ CombineCall

SpecCombine == InitBPS /\ [][NextCombine]_vars

-----------------------------------------------------------------------------
(* Properties of harmonize *)

Harmonized == call.op = "harmonize" /\ status = "ok"

Targets == TargetList(rules, call.targets)

RuleOf(v) == rules[RuleIndex(rules, v)]

\* the rule's raw field name for the wave of the last call ("" if none)
RawName(v) == Get(RuleOf(v).wave_names, call.wave, "")

\* the columns of the input that match the raw name of v, whatever the case
Matching(v) == {j \in 1..Len(inp) : Lower(inp[j].name) = Lower(RawName(v))}

Matched(v) == HasRule(rules, v) /\ RawName(v) /= "" /\ Matching(v) /= {}

\* the keys of the log that are column renames
RenameKeys == {key \in DOMAIN log : key /= "R10A+R11" /\ log[key] \notin {"applied", "applied_from_base"}}

\* C1: the dataset harmonize returns has as many rows as its input, in every
\* column
RowCountPreserved ==
    Harmonized => \A j \in 1..Len(df) : Len(df[j].vals) = Height(inp)

\* C1 witness: a call on a non-empty dataset that added a column, renamed one
\* and substituted labels
RowCountWitness ==
    /\ Harmonized
    /\ Height(inp) >= 1
    /\ Len(df) > Len(inp)
    /\ RenameKeys /= {}
    /\ subs /= <<>>

ChosenDict(rule, wave) ==
    IF wave \in DOMAIN rule.value_mappings /\ rule.value_mappings[wave] /= <<>>
    THEN rule.value_mappings[wave]
    ELSE IF "all" \in DOMAIN rule.value_mappings THEN rule.value_mappings["all"]
    ELSE <<>>

LabelOf(c, dict) == IF c.k = "int" /\ c.i \in DOMAIN dict THEN S(dict[c.i]) ELSE NULL

\* C3: with preserve_labels=False every substitution of the rule sweep uses the
\* wave's dictionary if the rule has one, else the "all" dictionary; each coded
\* value becomes its label and a value without an entry becomes null; and every
\* matched rule with a dictionary is substituted when the call returns
ValueMappingFailSoft ==
    (call.op = "harmonize" /\ ~call.preserve_labels) =>
        /\ \A e \in 1..Len(subs) :
              subs[e].src = "rule" =>
                 /\ subs[e].dict = ChosenDict(RuleOf(subs[e].var), call.wave)
                 /\ \A r \in 1..Len(subs[e].before) :
                       subs[e].after[r] = LabelOf(subs[e].before[r], subs[e].dict)
        /\ status = "ok" =>
              \A t \in 1..Len(Targets) :
                 (Matched(Targets[t]) /\ ChosenDict(RuleOf(Targets[t]), call.wave) /= <<>>) =>
                    \E e \in 1..Len(subs) : subs[e].src = "rule" /\ subs[e].var = Targets[t]

\* C3 witness: a returned call whose rule sweep met a code that its dictionary
\* lacks, and made it null
ValueMappingWitness ==
    /\ Harmonized
    /\ \E e \in 1..Len(subs) :
          /\ subs[e].src = "rule"
          /\ \E r \in 1..Len(subs[e].before) :
                subs[e].before[r] = I(3) /\ subs[e].after[r] = NULL

\* the first or the last of a set of column positions
PickOf(first, set) == IF first THEN MinOf(set) ELSE MaxOf(set)

\* the column harmonize is to have matched for v, under a choice among the
\* columns that match
MatchedColumnIs(first) ==
    Harmonized =>
        /\ \A key \in RenameKeys :
              /\ HasRule(rules, log[key])
              /\ Matching(log[key]) /= {}
              /\ key = inp[PickOf(first, Matching(log[key]))].name
              /\ call.preserve_labels =>
                    Col(df, log[key]).vals = inp[PickOf(first, Matching(log[key]))].vals
        /\ \A e \in 1..Len(subs) :
              (subs[e].src = "rule" /\ call.preserve_original_names) =>
                 subs[e].field = inp[PickOf(first, Matching(subs[e].var))].name
        /\ \A t \in 1..Len(Targets) :
              ( /\ Matched(Targets[t])
                /\ ~call.preserve_original_names
                /\ ~HasColumn(inp, Targets[t])
                /\ ~(Targets[t] = "work_status" /\ "R10A+R11" \in DOMAIN log) )
              => LET key == inp[PickOf(first, Matching(Targets[t]))].name
                 IN key \in DOMAIN log /\ log[key] = Targets[t]

\* C4 as stated: the raw field name is matched whatever the letter case, and
\* of several columns that differ only in case the first one is matched
FirstCasingWins == MatchedColumnIs(TRUE)

\* C4 amended: the raw field name is matched whatever the letter case, and of
\* several columns that differ only in case the last one in column order is
\* the one renamed and value-mapped
LastCasingWins == MatchedColumnIs(FALSE)

\* C4 witness: a rename in a dataset that holds the raw field under two casings
CasingWitness ==
    /\ Harmonized
    /\ Height(inp) >= 1
    /\ \E key \in RenameKeys : Cardinality(Matching(log[key])) >= 2

\* the August 2024 special case applied to the input of the last call
Derived == call.wave = "2024-08" /\ HasColumn(inp, "R10A") /\ HasColumn(inp, "R11")

ExpectedWorkStatus(r) ==
    LET a == Col(inp, "R10A").vals[r]
        b == Col(inp, "R11").vals[r]
    IN CASE a = I(1) -> I(1)
         [] a = I(2) /\ b = I(1) -> I(2)
         [] a = I(2) /\ b = I(2) -> I(3)
         [] OTHER -> NULL

\* C5: a column is renamed only to a canonical name that no column of the
\* working dataset holds (not one of the input, not the derived work_status,
\* not one an earlier rename gave), and the work_status derived for 2024-08 is
\* still the derived column when the call returns
RenameGuarded ==
    Harmonized =>
        /\ \A key \in RenameKeys :
              /\ ~HasColumn(inp, log[key])
              /\ ~(Derived /\ log[key] = "work_status")
        /\ \A k1 \in RenameKeys, k2 \in RenameKeys : log[k1] = log[k2] => k1 = k2
        /\ Derived =>
              /\ Cardinality({j \in 1..Len(df) : df[j].name = "work_status"}) = 1
              /\ (\A e \in 1..Len(subs) : subs[e].field /= "work_status") =>
                    \A r \in 1..Height(inp) :
                       Col(df, "work_status").vals[r] = ExpectedWorkStatus(r)

\* C5 witness: a 2024-08 call that derived work_status while a rule of the
\* table maps a raw column of the dataset to work_status
RenameGuardWitness ==
    /\ Harmonized
    /\ Derived
    /\ Height(inp) >= 1
    /\ ~call.preserve_original_names
    /\ InSeq("work_status", Targets)
    /\ Matched("work_status")
    /\ HasColumn(df, RawName("work_status"))

\* C2 as stated: harmonizing a harmonized dataset again with
\* preserve_labels=False leaves every label-translated column as it was
SubstitutionIdempotent ==
    (Harmonized /\ calls >= 2 /\ ~call.preserve_labels) =>
        \A j \in 1..Len(inp) : inp[j].name \in prev => df[j].vals = inp[j].vals

\* C6 as stated: within one call no field is label-substituted twice
LabelledAtMostOnce ==
    Harmonized =>
        \A e1 \in 1..Len(subs), e2 \in 1..Len(subs) :
           e1 < e2 => subs[e1].field /= subs[e2].field

\* C7 as stated: the log has raw -> canonical for every renamed column and a
\* labels entry for every field that was label-substituted, whatever the source
LogMarksEverySubstitution ==
    Harmonized =>
        /\ \A j \in 1..Len(inp) :
              df[j].name /= inp[j].name =>
                 inp[j].name \in DOMAIN log /\ log[inp[j].name] = df[j].name
        /\ \A e \in 1..Len(subs) :
              /\ LabelsKey(subs[e].field) \in DOMAIN log
              /\ subs[e].src = "override" => log[LabelsKey(subs[e].field)] = "applied"
              /\ subs[e].src = "base" => log[LabelsKey(subs[e].field)] = "applied_from_base"
              /\ subs[e].src = "rule" =>
                    log[LabelsKey(subs[e].field)] \notin {"applied", "applied_from_base"}

\* C8 as stated: harmonize returns normally whatever the dataset, the wave, the
\* rule table and the targets
NeverRaises == call.op = "harmonize" => status /= "raised"


-----------------------------------------------------------------------------
(* Properties of create_labor_force_indicators *)

LaborDone == call.op = "labor" /\ status = "ok"

SeekingNames == {"looking_for_work", "SRH_KERJA", "B5R17"}

HasSeeking(d) == \E name \in SeekingNames : HasColumn(d, name)

Rows == 1..Height(inp)

Out(name, r) == Col(df, name).vals[r]

In(name, r) == Col(inp, name).vals[r]

\* C9: work_status of a listed numeric dtype and no job-seeking column: every
\* row of code 1 ends employed, not unemployed and in the labour force, and
\* unemployed is False on every row
NoSeekingCodeOne ==
    (LaborDone /\ HasColumn(inp, "work_status")
       /\ Col(inp, "work_status").dtype \in ListedNumeric /\ ~HasSeeking(inp)) =>
        /\ HasColumn(df, "employed") /\ HasColumn(df, "unemployed")
        /\ HasColumn(df, "in_labor_force")
        /\ Height(df) = Height(inp)
        /\ \A r \in Rows :
              /\ Out("unemployed", r) = B(FALSE)
              /\ In("work_status", r) = I(1) =>
                    /\ Out("employed", r) = B(TRUE)
                    /\ Out("in_labor_force", r) = B(TRUE)

NoSeekingWitness ==
    /\ LaborDone /\ calls = 1 /\ HasColumn(inp, "work_status")
    /\ Col(inp, "work_status").dtype \in ListedNumeric /\ ~HasSeeking(inp)
    /\ Height(inp) >= 1
    /\ In("work_status", 1) = I(1)
    /\ Out("employed", 1) = B(TRUE)
    /\ Out("in_labor_force", 1) = B(TRUE)

\* the job-seeking column the call read, by the order of precedence
SeekingName ==
    IF HasColumn(inp, "looking_for_work") THEN "looking_for_work"
    ELSE IF HasColumn(inp, "SRH_KERJA") THEN "SRH_KERJA"
    ELSE "B5R17"

SeekingIsCode == Col(inp, SeekingName).dtype \in SeekingNumeric

\* the respondent of row r answered that they seek work / answered otherwise
Seeks(r) ==
    LET c == In(SeekingName, r)
    IN c /= NULL /\ (IF SeekingIsCode THEN c = I(1) ELSE c.s \in {"Ya", "Ya, mencari pekerjaan"})

SeeksNot(r) ==
    LET c == In(SeekingName, r)
    IN c /= NULL /\ ~Seeks(r)

TemporarilyAbsent(r) == In("work_status", r) \in {I(2), S(TempLabel)}

SeekingCase ==
    /\ LaborDone /\ HasColumn(inp, "work_status") /\ HasSeeking(inp)

\* C10: with a job-seeking column, a temporarily absent respondent ends
\* employed and not unemployed when not seeking work, unemployed and not
\* employed when seeking work; no row is unemployed without seeking work
TemporarilyAbsentBySeeking ==
    SeekingCase =>
        /\ HasColumn(df, "employed") /\ HasColumn(df, "unemployed")
        /\ \A r \in Rows :
              /\ (TemporarilyAbsent(r) /\ SeeksNot(r)) =>
                    Out("employed", r) = B(TRUE) /\ Out("unemployed", r) = B(FALSE)
              /\ (TemporarilyAbsent(r) /\ Seeks(r)) =>
                    Out("unemployed", r) = B(TRUE) /\ Out("employed", r) = B(FALSE)
              /\ Out("unemployed", r) = B(TRUE) => Seeks(r)

TemporarilyAbsentWitness ==
    /\ SeekingCase
    /\ Height(inp) >= 1
    /\ TemporarilyAbsent(1) /\ SeeksNot(1)
    /\ Out("employed", 1) = B(TRUE) /\ Out("unemployed", 1) = B(FALSE)
    /\ Col(inp, "work_status").dtype = "String"
    /\ ~SeekingIsCode


\* every column of the input of the call is in a representation the
\* derivations provide for: a listed numeric dtype, text, or a derived boolean
ExpectedRepresentation ==
    \A j \in 1..Len(inp) : inp[j].dtype \in ListedNumeric \cup {"String", "Boolean"}

\* C11 as stated: whatever columns are present or absent, the call returns
\* normally; a derivation whose prerequisite is absent is skipped
MissingPrerequisiteSkipped ==
    (call.op = "labor" /\ ExpectedRepresentation) => status /= "raised"


\* a wage of row r of the input, an absent column and a null counting as 0
WageOrZero(name, r) ==
    IF HasColumn(inp, name) /\ In(name, r) /= NULL THEN In(name, r).i ELSE 0

\* C12 as stated: total_wage exists whenever wage_cash or wage_goods does, and
\* is on every row the sum of the two, a null or an absent column counting as 0
TotalWageWhenEitherPresent ==
    (LaborDone /\ (HasColumn(inp, "wage_cash") \/ HasColumn(inp, "wage_goods"))) =>
        /\ HasColumn(df, "total_wage")
        /\ \A r \in Rows :
              Out("total_wage", r) = I(WageOrZero("wage_cash", r) + WageOrZero("wage_goods", r))

\* the employment-status column the derivation reads
StatusName == IF HasColumn(inp, "employment_status") THEN "employment_status" ELSE "STATUS_PEK"

HasStatus == HasColumn(inp, "employment_status") \/ HasColumn(inp, "STATUS_PEK")

StatusIsCode == Col(inp, StatusName).dtype \in ListedNumeric

\* C13 as stated: formal and informal employment from the status scale, from
\* employment_status or else STATUS_PEK; text labels give False on both
FormalFromStatus ==
    (call.op = "labor" /\ HasStatus /\ ExpectedRepresentation) =>
        /\ status = "ok"
        /\ HasColumn(df, "formal_employment") /\ HasColumn(df, "informal_employment")
        /\ \A r \in Rows :
              /\ (StatusIsCode /\ In(StatusName, r) \in {I(3), I(4)}) =>
                    Out("formal_employment", r) = B(TRUE)
              /\ (StatusIsCode /\ In(StatusName, r) \in {I(1), I(2), I(5), I(6), I(7)}) =>
                    Out("informal_employment", r) = B(TRUE)
              /\ ~(Out("formal_employment", r) = B(TRUE) /\ Out("informal_employment", r) = B(TRUE))
              /\ ~StatusIsCode =>
                    /\ Out("formal_employment", r) = B(FALSE)
                    /\ Out("informal_employment", r) = B(FALSE)


-----------------------------------------------------------------------------
(* Properties of validate_harmonization *)

Validated == ret.fn = "validate"

\* the rules with an entry for the wave whose raw column is in the original
\* dataset, under a letter-case-blind or an exact comparison of names
RawColumnExisted(j, blind) ==
    LET raw == Get(rules[j].wave_names, ret.report.wave, "")
    IN /\ raw /= ""
       /\ \E c \in 1..Len(ret.original) :
             IF blind THEN Lower(ret.original[c].name) = Lower(raw)
             ELSE ret.original[c].name = raw

FailingRules(blind) ==
    {j \in 1..Len(rules) :
        RawColumnExisted(j, blind) /\ ~HasColumn(ret.harmonized, rules[j].standard_name)}

ReportIsExact(blind) ==
    Validated =>
        /\ ret.report.validation_passed <=>
              (FailingRules(blind) = {} /\ Height(ret.original) = Height(ret.harmonized))
        /\ {ret.report.missing_variables[m] : m \in 1..Len(ret.report.missing_variables)}
              = {rules[j].standard_name : j \in FailingRules(blind)}
        /\ Len(ret.report.missing_variables) = Cardinality(FailingRules(blind))

\* C14 as stated: validation_passed is True exactly when every rule whose raw
\* column existed in the original, under the case-blind matching of harmonize,
\* has its canonical column in the harmonized dataset and the row counts are
\* equal; missing_variables lists exactly the failing canonical names
ReportUnderHarmonizeMatching == ReportIsExact(TRUE)

\* C14 amended: the same, the raw column being looked up in the original
\* dataset under its exact name
ReportUnderExactNames == ReportIsExact(FALSE)

\* C14 witness: one report that fails on a missing variable alone, the rows
\* being equal in number
ReportWitness ==
    /\ Validated
    /\ ~ret.report.validation_passed
    /\ Len(ret.report.missing_variables) >= 1
    /\ Height(ret.original) = Height(ret.harmonized)
    /\ Height(ret.original) >= 1

-----------------------------------------------------------------------------
(* Properties of the poverty indicators *)

PovertyCalled == ret.fn \in {"headcount", "fgt"}

PovertyReturned == PovertyCalled /\ ret.result.raised = ""

\* the households a poverty call kept, under lower-case column names
Kept ==
    Lowered(IF ret.exclude_single_person THEN ExcludeSinglePerson(ret.data) ELSE ret.data)

RegionName(r) == Get(PROVINCE_CODE_TO_NAME, Col(Kept, "r101").vals[r].i, "")

Category(r) == IF Col(Kept, "r105").vals[r].i = 1 THEN "urban" ELSE "rural"

HasEntry(r) == RegionName(r) /= "" /\ <<RegionName(r), Category(r)>> \in DOMAIN ret.poverty_lines

HasNational(r) == <<"INDONESIA", Category(r)>> \in DOMAIN ret.poverty_lines

\* C15: in calculate_poverty_headcount and in calculate_poverty_fgt alike, the
\* poverty line of a household is the table's entry for (name of its region,
\* its category) when there is one, else the national entry ("INDONESIA",
\* category) when there is one, else the hard-coded constant; a region without
\* an entry never gets the hard-coded constant while the national entry exists.
PovertyLineThreeTier ==
    PovertyReturned =>
        \A r \in 1..Height(Kept) :
            LET line == ret.result.lines[r]
            IN /\ HasEntry(r) => line = ret.poverty_lines[<<RegionName(r), Category(r)>>]
               /\ ~HasEntry(r) /\ HasNational(r) =>
                     line = ret.poverty_lines[<<"INDONESIA", Category(r)>>]
               /\ ~HasEntry(r) /\ ~HasNational(r) =>
                     line = IF Category(r) = "urban" THEN HardUrban ELSE HardRural

\* calculate_poverty_fgt gave a household of a region without an entry the
\* national line
PovertyLineWitness ==
    /\ PovertyReturned
    /\ ret.fn = "fgt"
    /\ \E r \in 1..Height(Kept) :
          /\ ~HasEntry(r)
          /\ HasNational(r)
          /\ ret.result.lines[r] = ret.poverty_lines[<<"INDONESIA", Category(r)>>]

\* what calculate_poverty_fgt returns for the data and table of the last call
\* under each alpha
FgtOf(alpha) ==
    CalculatePovertyFgt(ret.data, ret.poverty_lines, alpha, ret.exclude_single_person).value

\* a <= b and a < b for fractions of positive denominator
FracLeq(a, b) == a.n * b.d <= b.n * a.d

FracLess(a, b) == a.n * b.d < b.n * a.d

Times100(a) == Frac(100 * a.n, a.d)

FgtReturned == PovertyReturned /\ ret.fn = "fgt"

NonNegativeValues ==
    \A r \in 1..Height(Kept) :
        Col(Kept, "kapita").vals[r] /= NULL => Col(Kept, "kapita").vals[r].i >= 0

\* C16 as stated: for non-negative values, the values calculate_poverty_fgt
\* returns for a fixed dataset satisfy FGT(2) <= FGT(1) <= FGT(0).
FgtMonotone ==
    FgtReturned /\ NonNegativeValues =>
        FracLeq(FgtOf(2), FgtOf(1)) /\ FracLeq(FgtOf(1), FgtOf(0))

\* C16 amended: for non-negative values, the returned values satisfy
\* FGT(2) <= FGT(1) <= 100 * FGT(0); the values for alpha > 0 are percentages,
\* the value for alpha = 0 is a fraction.
FgtMonotoneScaled ==
    FgtReturned /\ NonNegativeValues =>
        FracLeq(FgtOf(2), FgtOf(1)) /\ FracLeq(FgtOf(1), Times100(FgtOf(0)))

\* a call on households with a gap strictly between nothing and the whole line
FgtMonotoneWitness ==
    /\ FgtReturned
    /\ NonNegativeValues
    /\ FracLess(Frac(0, 1), FgtOf(2))
    /\ FracLess(FgtOf(2), FgtOf(1))
    /\ FracLess(FgtOf(1), Times100(FgtOf(0)))

\* the weight of a kept household in the estimate of the last call
WeightOf(r) ==
    IF ret.fn = "fgt" /\ HasColumn(Kept, "weind") THEN Num(Col(Kept, "weind").vals[r])
    ELSE Num(Col(Kept, "r301").vals[r]) * Num(Col(Kept, "wert").vals[r])

TotalWeight == SumOver([r \in 1..Height(Kept) |-> WeightOf(r)], 1..Height(Kept))

\* C17: in every poverty computation (the headcount, and FGT for alpha 0, 1
\* and 2) a total weight of zero gives a NaN/null estimate with a warning:
\* no error and no ordinary number.
ZeroWeightIsNaN ==
    PovertyCalled /\ ret.result.raised = "" /\ TotalWeight = 0 =>
        ret.result.value.nan /\ ret.result.warned

\* the dataset of the last call has no column of this name in either case
Lacks(name) == ~\E j \in 1..Len(ret.data) : Lower(ret.data[j].name) = name

\* C18: calculate_poverty_headcount and calculate_poverty_fgt, called on data
\* without KAPITA (in any case) or without any weight column, raise the
\* configuration error at once, before any filtering, whatever the value of
\* exclude_single_person; no result is returned.
MissingColumnIsConfigurationError ==
    PovertyCalled /\ (Lacks("kapita") \/ (Lacks("wert") /\ Lacks("weind"))) =>
        ret.result.raised = "ValueError"

-----------------------------------------------------------------------------
(* Properties of the inequality indicators *)

GiniReturned == ret.fn = "gini" /\ ret.result.raised = ""

\* the rows calculate_gini kept and the two columns it read
GiniData == ExcludedIfAsked(ret.data, ret.exclude_single_person)

GiniValue(r) == Col(GiniData, ValueColumn(GiniData, ret.value_col)).vals[r]

GiniWeight(r) ==
    Col(GiniData, IF HasColumn(GiniData, ret.weight_col) THEN ret.weight_col ELSE "WEIND").vals[r]

GiniRows == 1..Height(GiniData)

\* a null value or weight, a total weight of zero or a total value of zero
GiniUndefined ==
    \/ \E r \in GiniRows : GiniValue(r) = NULL \/ GiniWeight(r) = NULL
    \/ SumOver([r \in GiniRows |-> GiniWeight(r).i], GiniRows) = 0
    \/ SumOver([r \in GiniRows |-> GiniWeight(r).i * GiniValue(r).i], GiniRows) = 0

AllValuesEqual == \A r, q \in GiniRows : GiniValue(r) = GiniValue(q)

GiniInUnitInterval ==
    /\ ~ret.result.value.nan
    /\ FracLeq(Frac(0, 1), ret.result.value)
    /\ FracLeq(ret.result.value, Frac(1, 1))

RatiosReturned == ret.fn = "ratios" /\ ret.result.raised = ""

\* the weighted percentile k/10 of the value column of the last call: the
\* least value at or below which lies at least k tenths of the total weight
WeightedPercentile(k) ==
    LET w == [r \in GiniRows |-> Num(Col(GiniData, ret.weight_col).vals[r])]
        valued == {r \in GiniRows : GiniValue(r) /= NULL}
        AtMost(v) == {r \in valued : GiniValue(r).i <= v}
        reached == {r \in valued :
                       10 * SumOver(w, AtMost(GiniValue(r).i)) >= k * SumOver(w, valued)}
    IN GiniValue(CHOOSE r \in reached :
                     \A q \in reached : GiniValue(r).i <= GiniValue(q).i).i

\* p / q, null when the divisor is zero
RatioUnlessZero(p, q) == IF q = 0 THEN Frac(0, 0) ELSE Frac(p, q)

\* C20: calculate_percentile_ratios computes the weighted percentiles p10,
\* p20, p50, p80 and p90 of the value column under weight_col, returns them,
\* and returns the ratios p90/p10, p80/p20, p90/p50 and p50/p10 of those
\* weighted percentiles, each null exactly when its divisor is zero.
RatiosOfWeightedPercentiles ==
    RatiosReturned /\ HasColumn(GiniData, ret.weight_col)
                   /\ SumOver([r \in GiniRows |-> Num(Col(GiniData, ret.weight_col).vals[r])],
                              {r \in GiniRows : GiniValue(r) /= NULL}) > 0 =>
        /\ ret.result.ratios.p10 = Frac(WeightedPercentile(1), 1)
        /\ ret.result.ratios.median = Frac(WeightedPercentile(5), 1)
        /\ ret.result.ratios.p90 = Frac(WeightedPercentile(9), 1)
        /\ ret.result.ratios.p90_p10 = RatioUnlessZero(WeightedPercentile(9), WeightedPercentile(1))
        /\ ret.result.ratios.p80_p20 = RatioUnlessZero(WeightedPercentile(8), WeightedPercentile(2))
        /\ ret.result.ratios.p90_p50 = RatioUnlessZero(WeightedPercentile(9), WeightedPercentile(5))
        /\ ret.result.ratios.p50_p10 = RatioUnlessZero(WeightedPercentile(5), WeightedPercentile(1))

\* C21: the inequality indicators, called with a weight_col or a value_col
\* that is not a column of the dataset, fail with an error about the missing
\* column before any estimate is computed.
MissingColumnFailsFast ==
    ret.fn \in {"gini", "ratios"}
    /\ (~HasColumn(ret.data, ret.weight_col) \/ ~HasColumn(ret.data, ret.value_col)) =>
        ret.result.raised /= ""

-----------------------------------------------------------------------------
(* Properties of the BPS API client *)

LinesCalled == ret.fn = "get_poverty_lines"

LinesReturned == LinesCalled /\ ret.result.raised = ""

\* the fields of the j-th datacontent key of the response, by position
KeyProvince(j) == IntOf(SubSeq(ret.response.datacontent[j].key, 1, 4))

KeyArea(j) == IntOf(SubSeq(ret.response.datacontent[j].key, 8, 10))

KeyPeriod(j) == IntOf(SubSeq(ret.response.datacontent[j].key, 14, 15))

ListedProvinces == {ret.response.vervar[i].val : i \in 1..Len(ret.response.vervar)}

LabelOfProvince(val) ==
    ret.response.vervar[CHOOSE i \in 1..Len(ret.response.vervar) :
                            ret.response.vervar[i].val = val].label

\* the keys of a listed province, of area 430 or 431 and of the period asked
KeptKeys ==
    {j \in 1..Len(ret.response.datacontent) :
        /\ KeyProvince(j) \in ListedProvinces
        /\ KeyArea(j) \in {430, 431}
        /\ KeyPeriod(j) = PERIOD_CODES[Lower(ret.period)]}

\* C22: get_poverty_lines(year, period) returns exactly one entry
\* (province label, "urban" | "rural") -> value for each datacontent key whose
\* first four digits are a province listed in vervar, whose area marker is 430
\* (urban) or 431 (rural) and whose period is the one asked; keys of another
\* period, of an unlisted province or without an area marker are dropped.
PovertyLinesParsed ==
    LinesReturned =>
        /\ Cardinality(DOMAIN ret.result.lines) = Cardinality(KeptKeys)
        /\ \A j \in KeptKeys :
              LET entry == << LabelOfProvince(KeyProvince(j)),
                              IF KeyArea(j) = 430 THEN "urban" ELSE "rural" >>
              IN /\ entry \in DOMAIN ret.result.lines
                 /\ ret.result.lines[entry] = ret.response.datacontent[j].value

\* a response of which one key was kept and another, of a listed province
\* but another period or no area marker, was dropped
PovertyLinesWitness ==
    /\ LinesReturned
    /\ KeptKeys /= {}
    /\ \E j \in 1..Len(ret.response.datacontent) :
          /\ j \notin KeptKeys
          /\ KeyProvince(j) \in ListedProvinces
    /\ Cardinality(DOMAIN ret.result.lines) = Cardinality(KeptKeys)

\* C23: a call of get_poverty_lines(year, period) with a supported period
\* issues exactly one HTTP GET, to
\* BASE_URL/list/model/data/lang/ind/domain/0000/var/195/th/<year-1900>/key/<api_key>
\* with params {tur: period code}, timeout=30 and verify=False; with an
\* unsupported period it raises ValueError and issues no request.
OneGetPerCall ==
    LinesCalled =>
        IF Lower(ret.period) \in {"march", "september", "annual"}
        THEN ret.result.requests =
                << [url |-> << "https://webapi.bps.go.id/v1/api",
                               "/list/model/data/lang/ind/domain/0000/var/195/th/",
                               ret.year - 1900, "/key/", ret.api_key >>,
                    kwargs |-> [params |-> [tur |-> PERIOD_CODES[Lower(ret.period)]],
                                timeout |-> 30, verify |-> FALSE]] >>
        ELSE ret.result.raised = "ValueError" /\ ret.result.requests = <<>>

-----------------------------------------------------------------------------
(* Properties of the converters *)

ConverterCalled == ret.fn \in {"dbf_to_parquet", "dta_to_parquet"}

SourceExisted == Exists(ret.before.files, ret.source)

\* the parquet file was missing or older than the source before the call
Stale ==
    \/ ~Exists(ret.before.files, ret.parquet_path)
    \/ ret.before.files[ret.parquet_path] < ret.before.files[ret.source]

\* C24: dbf_to_parquet and dta_to_parquet convert exactly when force_rebuild
\* is true, the parquet file does not exist or it is older than the source,
\* and otherwise leave the parquet file untouched and return its path; after
\* any sequence of calls and source modifications a call that returns normally
\* returns the path of an existing parquet file not older than the source; a
\* call on a missing source raises FileNotFoundError and writes nothing.
ConvertsExactlyWhenStale ==
    ConverterCalled =>
        /\ ret.result.raised = "" =>
              /\ ret.result.converted <=> (ret.force_rebuild \/ Stale)
              /\ ~ret.result.converted => fs.files = ret.before.files
              /\ ret.result.path = ret.parquet_path
              /\ Exists(fs.files, ret.result.path)
              /\ fs.files[ret.result.path] >= fs.files[ret.source]
        /\ ~SourceExisted => ret.result.raised = "FileNotFoundError" /\ fs = ret.before
        /\ ret.result.raised = "FileNotFoundError" => ~SourceExisted

\* a call found the parquet file older than a rewritten source and converted
ConvertWitness ==
    /\ ConverterCalled
    /\ ret.result.raised = ""
    /\ ~ret.force_rebuild
    /\ Exists(ret.before.files, ret.parquet_path)
    /\ ret.before.files[ret.parquet_path] < ret.before.files[ret.source]
    /\ ret.result.converted
    /\ fs.files[ret.parquet_path] > ret.before.files[ret.parquet_path]

-----------------------------------------------------------------------------
(* Further properties of create_labor_force_indicators *)

\* the columns of the input that a derivation reads by dtype and that are
\* neither of a listed numeric dtype nor text
UnexpectedColumns ==
    {j \in 1..Len(inp) :
        /\ inp[j].name \in {"work_status", "DEM_SKLH", "school_participation",
                            "employment_status"} \cup SeekingNames
        /\ inp[j].dtype \notin ListedNumeric \cup {"String"}}

\* C25: a derivation of create_labor_force_indicators that meets a column in
\* an unexpected representation (neither a listed numeric dtype nor text)
\* takes the numeric-code branch and does not raise.
UnexpectedTakesNumericBranch ==
    call.op = "labor" /\ UnexpectedColumns /= {} =>
        /\ status /= "raised"
        /\ \A r \in Rows :
              HasColumn(inp, "work_status") /\ In("work_status", r) /= NULL =>
                  Out("employed", r) = B(In("work_status", r) = I(1))

-----------------------------------------------------------------------------
(* Properties of a SurveyHarmonizer instance *)

LabourInputsNonNull ==
    /\ HasColumn(inp, "age")
    /\ HasColumn(inp, "work_status")
    /\ \A j \in 1..Len(inp) :
          inp[j].name \in {"work_status"} \cup SeekingNames =>
              \A r \in Rows : inp[j].vals[r] /= NULL

\* how many of employed, unemployed and not_in_labor_force are True on row r
StatesOf(r) ==
    Cardinality({name \in {"employed", "unemployed", "not_in_labor_force"} :
                    Out(name, r) = B(TRUE)})

\* C27: after create_labor_force_indicators on a dataset with age and a
\* work_status column whose values (and job-seeking values, when present) are
\* non-null, no row has employed and unemployed both True, and every
\* working-age row satisfies exactly one of employed, unemployed and
\* not_in_labor_force.
LabourStatesPartition ==
    LaborDone /\ LabourInputsNonNull =>
        \A r \in Rows :
            /\ ~(Out("employed", r) = B(TRUE) /\ Out("unemployed", r) = B(TRUE))
            /\ Out("working_age_population", r) = B(TRUE) => StatesOf(r) = 1

\* a working-age row that seeks work while temporarily absent, unemployed only
LabourStatesWitness ==
    /\ LaborDone
    /\ LabourInputsNonNull
    /\ HasSeeking(inp)
    /\ \E r \in Rows :
          /\ Out("working_age_population", r) = B(TRUE)
          /\ Out("temp_not_working", r) = B(TRUE)
          /\ Out("unemployed", r) = B(TRUE)
          /\ StatesOf(r) = 1

-----------------------------------------------------------------------------
(* Harmonize, then validate *)

\* the report is that of validating the dataset harmonize returned, the call
\* having been made with the default options
RoundTrip ==
    /\ Validated
    /\ ret.harmonized = df
    /\ ~call.targets.given
    /\ ~call.preserve_labels
    /\ ~call.preserve_original_names

\* C28: when harmonize(D, W) with default options returns H,
\* validate_harmonization(D, H, W) reports validation_passed = True and an
\* empty missing_variables.
RoundTripValidates ==
    RoundTrip => ret.report.validation_passed /\ ret.report.missing_variables = <<>>

\* a round trip in which harmonize renamed a column and the report counts it
RoundTripWitness ==
    /\ RoundTrip
    /\ Height(df) >= 1
    /\ \E c \in 1..Len(inp) : ~HasColumn(df, inp[c].name)
    /\ Len(ret.report.variables_mapped) >= 1
    /\ ret.report.validation_passed

\* the last call was the headcount on a dataset with the columns urut, kapita,
\* r101, r105, r301 and wert, without weind, and a positive total weight
HeadcountInputs ==
    /\ ret.fn = "headcount"
    /\ \A c \in {"urut", "kapita", "r101", "r105", "r301", "wert"} : ~Lacks(c)
    /\ Lacks("weind")
    /\ ret.exclude_single_person => HasColumn(ret.data, "R301")
    /\ TotalWeight > 0

\* calculate_poverty_fgt(alpha=0) on the inputs of the last call
FgtOfSameInputs ==
    CalculatePovertyFgt(ret.data, ret.poverty_lines, 0, ret.exclude_single_person)

FracEq(a, b) == a.n * b.d = b.n * a.d

\* C29: for every dataset with the columns urut, kapita, r101, r105, r301 and
\* wert and no weind column, every poverty-line table, the same
\* exclude_single_person setting and a positive total weight,
\* calculate_poverty_headcount returns a poverty_rate_pct and
\* calculate_poverty_fgt(alpha=0) returns an fgt_index, and the first is 100
\* times the second.
HeadcountAgreesWithFgt ==
    HeadcountInputs =>
        /\ ret.result.raised = ""
        /\ FgtOfSameInputs.raised = ""
        /\ ~ret.result.value.nan
        /\ FracEq(ret.result.value, Times100(FgtOfSameInputs.value))

\* whenever the headcount returned on such inputs, the two estimates agree
HeadcountAgreesWhenReturned ==
    HeadcountInputs /\ ret.result.raised = "" =>
        /\ FgtOfSameInputs.raised = ""
        /\ ~ret.result.value.nan
        /\ FracEq(ret.result.value, Times100(FgtOfSameInputs.value))

-----------------------------------------------------------------------------
(* Properties of combine_parts *)

CombineCalled == ret.fn = "combine_parts"

\* C30: combine_parts deletes only temporary part files that it created
\* itself in the output directory: after any call, every file of the source
\* data directory that existed before the call still exists, including the
\* source part files that were already in parquet format.
SourceFilesKept ==
    CombineCalled =>
        \A p \in DOMAIN ret.before.files :
            p.dir = ret.data_dir => Exists(ret.result.after.files, p)

=============================================================================
